---- MODULE Spec2Model ----
(***************************************************************************)
(* State-machine model of the chat server's socket handlers: the flat-file *)
(* Store (readDatabase / writeDatabase), the presence map, the             *)
(* send_message / message_reaction / typing / join / join_group /          *)
(* disconnect handlers and the events they emit; of the conversation       *)
(* route GET /api/messages/:userId; and of the client's ChatInput          *)
(* component, which emits the typing signals.                              *)
(*                                                                         *)
(* Every handler is an async function: it runs atomically between two      *)
(* awaits, and the file read or write it awaits takes effect at a moment   *)
(* of its own, so handlers interleave at those points.  A handler is a     *)
(* record of `handlers` whose pc names the await it is suspended at.       *)
(***************************************************************************)
EXTENDS Integers, Sequences, FiniteSets, TLC

VARIABLES
    messagesDb,      \* database/messages.json: the array of message objects
    groupsDb,        \* database/groups.json: the array of group objects
    usersDb,         \* database/users.json: the array of user objects
    connectedUsers,  \* const connectedUsers = new Map(): userId -> socket id
    sockets,         \* per connection: state, socket.userId, rooms joined
    handlers,        \* handler invocations, in the order they were started
    events,          \* every event emitted to a connection, in emission order
    now,             \* the wall clock read by new Date()
    nextId,          \* number of uuidv4() values already drawn
    clients          \* per connection: the state of the browser client behind it

vars == <<messagesDb, groupsDb, usersDb, connectedUsers, sockets, handlers,
          events, now, nextId, clients>>

-----------------------------------------------------------------------------
(* Values *)

None == "none"                       \* JavaScript undefined / absent field

Users == {"A", "B", "C"}             \* user ids (uuids in the program)

Emojis == {"up", "heart"}

Contents == {"hi"}

ConnOrder == <<"a1", "b1", "b2", "c1">>   \* socket ids, in the server's order

Conns == {ConnOrder[i] : i \in DOMAIN ConnOrder}

\* The user logged in on the client that owns each connection: the client
\* emits join with user.id once, right after opening the socket.
ConnOwner == [c \in Conns |->
                 CASE c = "a1" -> "A" [] c = "b1" -> "B" [] c = "b2" -> "B"
                   [] OTHER -> "C"]

GroupIds == {"G"}

\* Bounds on the number of handler invocations observed in one behaviour.
MaxSends == 2
MaxReacts == 2
MaxHandlers == 2
MaxPresence == 3
MaxKeys == 3
MaxTyping == 2
MaxClose == 1
MaxOpens == 2
MaxVisits == 2

NullMsg == [id |-> 0, senderId |-> None, receiverId |-> None, groupId |-> None,
            content |-> None, createdAt |-> 0, updatedAt |-> 0,
            reactions |-> <<>>]

NullData == [senderId |-> None, receiverId |-> None, groupId |-> None,
             content |-> None, messageId |-> 0, userId |-> None,
             emoji |-> None, isNull |-> TRUE]

\* A group id no stored group carries
UnknownGroup == "X"

\* The browser client behind a connection, as far as the properties look at
\* it: the ChatInput component (isTyping state, the pending debounce timeout
\* with the isTyping its callback closed over, whether the draft is
\* non-empty, the keystrokes typed), the typing flags it has emitted, and the
\* last response to its GET /api/messages/:userId with the userId asked for.
NoTimer == [set |-> FALSE, isTyping |-> FALSE]

\* The events the SocketProvider and the pages listen to for messages
PushEvents == {"receive_message", "message_sent", "message_updated"}

\* No ChatRoom is mounted
NoView == [userId |-> None, mount |-> 0, messages |-> <<>>]

\* Further state of the client: whether the SocketProvider's listener of
\* each push event is still registered on the socket, the number of events
\* of the connection its listeners have run for, localStorage (the cached
\* messages of every conversation and group, the unread counters), the page
\* on screen, the mounted ChatRoom (its userId parameter and messages
\* state; mount tells component instances apart), the number of
\* navigations, and the GET /api/messages requests of its ChatRooms.
\* onlineUsers and typingUsers are the SocketProvider's states of these
\* names (typingUsers as the set of the keys of the Map).
ClientInit ==
    [isTyping |-> FALSE, timer |-> NoTimer, draft |-> FALSE, keys |-> 0,
     sent |-> <<>>, peer |-> None, conversation |-> <<>>,
     listening |-> [t \in PushEvents |-> TRUE], seen |-> 0,
     cache |-> [u \in Users |-> <<>>],
     groupCache |-> [g \in GroupIds |-> <<>>],
     unread |-> [u \in Users |-> 0],
     page |-> None, view |-> NoView, opens |-> 0, fetches |-> <<>>,
     onlineUsers |-> {}, typingUsers |-> {}]

-----------------------------------------------------------------------------
(* Array helpers, as the JavaScript array methods compute them *)

Range(s) == {s[i] : i \in DOMAIN s}

\* Array.prototype.filter
Filter(s, Keep(_)) == SelectSeq(s, Keep)

\* Array.prototype.findIndex, 1-based; 0 stands for JavaScript's -1
FindIndex(s, Test(_)) ==
    IF \E i \in DOMAIN s : Test(s[i])
    THEN CHOOSE i \in DOMAIN s : Test(s[i]) /\ \A j \in 1..(i-1) : ~Test(s[j])
    ELSE 0

\* [...new Set(array)]: first occurrences, in insertion order
RECURSIVE Dedupe(_)
Dedupe(s) ==
    IF s = <<>> THEN <<>>
    ELSE LET init == Dedupe(SubSeq(s, 1, Len(s) - 1))
             last == s[Len(s)]
         IN  IF last \in Range(init) THEN init ELSE Append(init, last)

Count(s, Test(_)) == Cardinality({i \in DOMAIN s : Test(s[i])})

-----------------------------------------------------------------------------
(* Store *)

\* readDatabase: the parsed array, or [] when the file cannot be read/parsed
readDatabase(db, ok) == IF ok THEN db ELSE <<>>

\* writeDatabase: replaces the file; a failed write is logged and swallowed,
\* the caller is not told
writeDatabase(db, data, ok) == IF ok THEN data ELSE db

-----------------------------------------------------------------------------
(* app.get('/api/messages/:userId') *)

\* One message inserted into a list sorted by createdAt, after the entries
\* that compare equal (Array.prototype.sort is stable)
RECURSIVE InsertByCreatedAt(_, _)
InsertByCreatedAt(sorted, m) ==
    IF sorted = <<>> THEN <<m>>
    ELSE IF m.createdAt < Head(sorted).createdAt THEN <<m>> \o sorted
    ELSE <<Head(sorted)>> \o InsertByCreatedAt(Tail(sorted), m)

\* messages.sort((a, b) => new Date(a.createdAt) - new Date(b.createdAt))
RECURSIVE SortByCreatedAt(_)
SortByCreatedAt(s) ==
    IF s = <<>> THEN <<>>
    ELSE InsertByCreatedAt(SortByCreatedAt(SubSeq(s, 1, Len(s) - 1)), s[Len(s)])

\* The response: the messages between the authenticated user and userId,
\* oldest first
Conversation(messages, me, userId) ==
    SortByCreatedAt(SelectSeq(messages, LAMBDA m :
        \/ m.senderId = me /\ m.receiverId = userId
        \/ m.senderId = userId /\ m.receiverId = me))

\* The client behind connection c fetches its conversation with userId; the
\* request is one read of messages.json and the response is what the client
\* holds afterwards
Fetch(c, userId, ok) ==
    /\ clients' = [clients EXCEPT
                     ![c].peer = userId,
                     ![c].conversation =
                         Conversation(readDatabase(messagesDb, ok), ConnOwner[c], userId)]
    /\ UNCHANGED <<messagesDb, groupsDb, usersDb, connectedUsers, sockets,
                   handlers, events, now, nextId>>

-----------------------------------------------------------------------------
(* Socket.IO delivery *)

\* The sockets an io.to(room) broadcast reaches: the open ones in the room
InRoom(room) == {c \in Conns : sockets[c].state = "open" /\ room \in sockets[c].rooms}

\* An emitted event as one connection receives it.  payload is the message
\* or the user id sent; by is the handler invocation that emitted it (kept
\* for the record only, the clients do not see it).
Event(type, c, msg, user, by) ==
    [type |-> type, to |-> c, msg |-> msg, user |-> user, by |-> by]

\* One emit to a set of sockets: one event per socket, in the server's order
RECURSIVE EmitFrom(_, _, _, _, _, _)
EmitFrom(i, targets, type, msg, user, by) ==
    IF i > Len(ConnOrder) THEN <<>>
    ELSE (IF ConnOrder[i] \in targets
          THEN <<Event(type, ConnOrder[i], msg, user, by)>> ELSE <<>>)
         \o EmitFrom(i + 1, targets, type, msg, user, by)

Emit(targets, type, msg, user, by) == EmitFrom(1, targets, type, msg, user, by)

\* socket.emit: to the originating connection, if it is still open
SocketEmit(c, type, msg, by) ==
    Emit({c} \cap {d \in Conns : sockets[d].state = "open"}, type, msg, None, by)

\* group.members.forEach(memberId => io.to(memberId).emit(type, message))
RECURSIVE ForEachMember(_, _, _, _)
ForEachMember(members, type, msg, by) ==
    IF members = <<>> THEN <<>>
    ELSE Emit(InRoom(Head(members)), type, msg, None, by)
         \o ForEachMember(Tail(members), type, msg, by)

\* groups.find(g => g.id === groupId), as the group's member array;
\* <<>> when no such group is stored (nothing is emitted then)
GroupMembers(groups, groupId) ==
    LET i == FindIndex(groups, LAMBDA g : g.id = groupId)
    IN  IF i = 0 THEN <<>> ELSE groups[i].members

\* Variant: the member array stored as posted, without new Set()
NewGroupAsPosted(id, creator, members) ==
    [id |-> id, members |-> <<creator>> \o members, createdBy |-> creator]

\* app.post('/api/groups'): the stored group object
NewGroup(id, creator, members) ==
    [id |-> id, members |-> Dedupe(<<creator>> \o members), createdBy |-> creator]

-----------------------------------------------------------------------------
(* Handler records *)

\* wrote and room are kept for the record only: whether the handler's write
\* took effect, and the sockets that were in the room named by the payload's
\* target (groupId, else receiverId) when the handler emitted
Handler(kind, c, data) ==
    [kind |-> kind, pc |-> "read", sock |-> c, data |-> data,
     messages |-> <<>>, message |-> NullMsg, users |-> <<>>, wrote |-> FALSE,
     room |-> {}]

SetH(h, r) == [handlers EXCEPT ![h] = r]

Started(kind) == Count(handlers, LAMBDA r : r.kind = kind)

-----------------------------------------------------------------------------
(* socket.on('send_message') *)

SendData(sender, receiver, group, content) ==
    [senderId |-> sender, receiverId |-> receiver, groupId |-> group,
     content |-> content, messageId |-> 0, userId |-> None, emoji |-> None,
     isNull |-> FALSE]

\* The event arrives: the handler calls readDatabase and suspends
SendStart(c, data) ==
    /\ sockets[c].state = "open"
    /\ handlers' = Append(handlers, Handler("send", c, data))
    /\ UNCHANGED <<messagesDb, groupsDb, usersDb, connectedUsers, sockets,
                   events, now, nextId, clients>>

\* The message object built from the payload.  type, fileUrl, fileName,
\* replies and isEdited are carried along unread by the handlers and are
\* left out; createdAt and updatedAt are two readings of the same instant.
NewMessage(id, data, t) ==
    [id |-> id, senderId |-> data.senderId, receiverId |-> data.receiverId,
     groupId |-> data.groupId, content |-> data.content,
     createdAt |-> t, updatedAt |-> t, reactions |-> <<>>]

\* The read completes; the handler builds the message, pushes it on its copy
\* of the array and calls writeDatabase.  A payload that is not an object
\* makes data.senderId throw: the catch emits message_error.
SendRead(h, ok, t) ==
    /\ h \in DOMAIN handlers
    /\ handlers[h].kind = "send" /\ handlers[h].pc = "read"
    /\ LET r == handlers[h]
           messages == readDatabase(messagesDb, ok)
           message == NewMessage(nextId + 1, r.data, t)
       IN  IF r.data.isNull
           THEN /\ handlers' = SetH(h, [r EXCEPT !.pc = "done"])
                /\ events' = events \o SocketEmit(r.sock, "message_error", NullMsg, h)
                /\ UNCHANGED <<now, nextId>>
           ELSE /\ handlers' = SetH(h, [r EXCEPT !.pc = "write",
                                                 !.messages = Append(messages, message),
                                                 !.message = message])
                /\ now' = t
                /\ nextId' = nextId + 1
                /\ UNCHANGED events
    /\ UNCHANGED <<messagesDb, groupsDb, usersDb, connectedUsers, sockets,
                   clients>>

\* Variant: the write is skipped once the originating socket has closed
SendWriteUnlessClosed(h, ok) ==
    /\ h \in DOMAIN handlers
    /\ handlers[h].kind = "send" /\ handlers[h].pc = "write"
    /\ sockets[handlers[h].sock].state = "open"
    /\ messagesDb' = writeDatabase(messagesDb, handlers[h].messages, ok)
    /\ handlers' = SetH(h, [handlers[h] EXCEPT !.pc = "fanout", !.messages = <<>>,
                                               !.wrote = ok])
    /\ UNCHANGED <<groupsDb, usersDb, connectedUsers, sockets, events, now,
                   nextId, clients>>

\* The write takes effect (or fails, silently)
SendWrite(h, ok) ==
    /\ h \in DOMAIN handlers
    /\ handlers[h].kind = "send" /\ handlers[h].pc = "write"
    /\ messagesDb' = writeDatabase(messagesDb, handlers[h].messages, ok)
    /\ handlers' = SetH(h, [handlers[h] EXCEPT !.pc = "fanout", !.messages = <<>>,
                                               !.wrote = ok])
    /\ UNCHANGED <<groupsDb, usersDb, connectedUsers, sockets, events, now,
                   nextId, clients>>

\* Variant: the new message emitted to every open socket (io.emit)
SendFanoutToAll(h, groups) ==
    Emit({c \in Conns : sockets[c].state = "open"}, "receive_message",
         handlers[h].message, None, h)
    \o SocketEmit(handlers[h].sock, "message_sent", handlers[h].message, h)

\* The room a send_message payload names
SendTarget(data) == IF data.groupId # None THEN data.groupId ELSE data.receiverId

\* Variant: a group message emitted to the group's room, io.to(data.groupId)
SendFanoutToRoom(h, groups) ==
    LET r == handlers[h]
    IN  IF r.data.groupId # None
        THEN Emit(InRoom(r.data.groupId), "receive_message", r.message, None, h)
        ELSE Emit(InRoom(r.data.receiverId), "receive_message", r.message, None, h)
             \o SocketEmit(r.sock, "message_sent", r.message, h)

\* The events of the fanout of a new message
SendFanout(h, groups) ==
    LET r == handlers[h]
    IN  IF r.data.groupId # None
        THEN ForEachMember(GroupMembers(groups, r.data.groupId),
                           "receive_message", r.message, h)
        ELSE Emit(InRoom(r.data.receiverId), "receive_message", r.message, None, h)
             \o SocketEmit(r.sock, "message_sent", r.message, h)

\* The handler resumes after the write: for a group it reads groups.json and
\* emits to every member's room; otherwise it emits to the receiver's room
\* and acknowledges to the originating socket
SendEmit(h, ok) ==
    /\ h \in DOMAIN handlers
    /\ handlers[h].kind = "send" /\ handlers[h].pc = "fanout"
    /\ events' = events \o SendFanout(h, readDatabase(groupsDb, ok))
    /\ handlers' = SetH(h, [handlers[h] EXCEPT
                               !.pc = "done",
                               !.room = InRoom(SendTarget(handlers[h].data))])
    /\ UNCHANGED <<messagesDb, groupsDb, usersDb, connectedUsers, sockets,
                   now, nextId, clients>>

-----------------------------------------------------------------------------
(* socket.on('message_reaction') *)

ReactData(messageId, user, emoji) ==
    [senderId |-> None, receiverId |-> None, groupId |-> None,
     content |-> None, messageId |-> messageId, userId |-> user, emoji |-> emoji,
     isNull |-> FALSE]

\* Variants of the toggle with a slip in one branch
applyReactionAlwaysPush(reactions, userId, emoji, t) ==
    Append(reactions, [userId |-> userId, emoji |-> emoji, createdAt |-> t])

applyReactionFilterKeepsUser(reactions, userId, emoji, t) ==
    LET i == FindIndex(reactions, LAMBDA r : r.userId = userId)
    IN  IF i # 0
        THEN IF reactions[i].emoji = emoji
             THEN Filter(reactions, LAMBDA r : r.userId = userId)
             ELSE [reactions EXCEPT ![i].emoji = emoji]
        ELSE Append(reactions, [userId |-> userId, emoji |-> emoji, createdAt |-> t])

applyReactionNoToggleOff(reactions, userId, emoji, t) ==
    LET i == FindIndex(reactions, LAMBDA r : r.userId = userId)
    IN  IF i # 0
        THEN [reactions EXCEPT ![i].emoji = emoji]
        ELSE Append(reactions, [userId |-> userId, emoji |-> emoji, createdAt |-> t])

\* The reaction toggle applied to message.reactions (lines 529-543):
\* existingReaction is the first entry of the user; the same emoji filters
\* every entry of the user out, another emoji is written into that entry,
\* and without an entry a new one is pushed
applyReaction(reactions, userId, emoji, t) ==
    LET i == FindIndex(reactions, LAMBDA r : r.userId = userId)
    IN  IF i # 0
        THEN IF reactions[i].emoji = emoji
             THEN Filter(reactions, LAMBDA r : r.userId # userId)
             ELSE [reactions EXCEPT ![i].emoji = emoji]
        ELSE Append(reactions, [userId |-> userId, emoji |-> emoji, createdAt |-> t])

ReactStart(c, data) ==
    /\ sockets[c].state = "open"
    /\ handlers' = Append(handlers, Handler("react", c, data))
    /\ UNCHANGED <<messagesDb, groupsDb, usersDb, connectedUsers, sockets,
                   events, now, nextId, clients>>

\* The read completes.  An unknown message id ends the handler without a
\* write and without any event; otherwise the toggle is applied to the
\* handler's copy of the array and writeDatabase is called.  A payload that
\* is not an object makes data.messageId throw in the findIndex callback,
\* which runs only when the array has an element: the catch emits
\* reaction_error.
ReactRead(h, ok, t) ==
    /\ h \in DOMAIN handlers
    /\ handlers[h].kind = "react" /\ handlers[h].pc = "read"
    /\ LET r == handlers[h]
           messages == readDatabase(messagesDb, ok)
           messageIndex == FindIndex(messages, LAMBDA m : m.id = r.data.messageId)
       IN  IF r.data.isNull /\ messages # <<>>
           THEN /\ handlers' = SetH(h, [r EXCEPT !.pc = "done"])
                /\ events' = events \o SocketEmit(r.sock, "reaction_error", NullMsg, h)
                /\ UNCHANGED now
           ELSE IF messageIndex = 0
           THEN /\ handlers' = SetH(h, [r EXCEPT !.pc = "done"])
                /\ UNCHANGED <<events, now>>
           ELSE LET message == [messages[messageIndex] EXCEPT
                                  !.reactions = applyReaction(@, r.data.userId,
                                                              r.data.emoji, t),
                                  !.updatedAt = t]
                IN  /\ handlers' = SetH(h, [r EXCEPT
                                               !.pc = "write",
                                               !.messages = [messages EXCEPT
                                                               ![messageIndex] = message],
                                               !.message = message])
                    /\ now' = t
                    /\ UNCHANGED events
    /\ UNCHANGED <<messagesDb, groupsDb, usersDb, connectedUsers, sockets,
                   nextId, clients>>

ReactWrite(h, ok) ==
    /\ h \in DOMAIN handlers
    /\ handlers[h].kind = "react" /\ handlers[h].pc = "write"
    /\ messagesDb' = writeDatabase(messagesDb, handlers[h].messages, ok)
    /\ handlers' = SetH(h, [handlers[h] EXCEPT !.pc = "fanout", !.messages = <<>>,
                                               !.wrote = ok])
    /\ UNCHANGED <<groupsDb, usersDb, connectedUsers, sockets, events, now,
                   nextId, clients>>

\* Variant: the update of a direct message emitted to the rooms of the
\* reacting user and of the receiver
ReactFanoutToReactor(h, groups) ==
    LET r == handlers[h]
    IN  IF r.message.groupId # None
        THEN ForEachMember(GroupMembers(groups, r.message.groupId),
                           "message_updated", r.message, h)
        ELSE Emit(InRoom(r.data.userId) \cup InRoom(r.message.receiverId),
                  "message_updated", r.message, None, h)

\* The events of the fanout of an updated message
ReactFanout(h, groups) ==
    LET r == handlers[h]
    IN  IF r.message.groupId # None
        THEN ForEachMember(GroupMembers(groups, r.message.groupId),
                           "message_updated", r.message, h)
        ELSE Emit(InRoom(r.message.senderId) \cup InRoom(r.message.receiverId),
                  "message_updated", r.message, None, h)

ReactEmit(h, ok) ==
    /\ h \in DOMAIN handlers
    /\ handlers[h].kind = "react" /\ handlers[h].pc = "fanout"
    /\ events' = events \o ReactFanout(h, readDatabase(groupsDb, ok))
    /\ handlers' = SetH(h, [handlers[h] EXCEPT !.pc = "done"])
    /\ UNCHANGED <<messagesDb, groupsDb, usersDb, connectedUsers, sockets,
                   now, nextId, clients>>

-----------------------------------------------------------------------------
(* io.on('connection'), socket.on('join'), socket.on('disconnect') *)

PresenceData(userId) ==
    [senderId |-> None, receiverId |-> None, groupId |-> None,
     content |-> None, messageId |-> 0, userId |-> userId, emoji |-> None,
     isNull |-> FALSE]

\* socket.broadcast.emit: every open socket but the emitting one
Broadcast(c, type, userId, by) ==
    Emit({d \in Conns : sockets[d].state = "open" /\ d # c}, type, NullMsg, userId, by)

\* users[userIndex].isOnline = flag, on the handler's copy of the array
\* (lastSeen and the profile fields of a user are left out)
SetOnline(users, userId, flag) ==
    LET userIndex == FindIndex(users, LAMBDA u : u.id = userId)
    IN  IF userIndex = 0 THEN users
        ELSE [users EXCEPT ![userIndex].isOnline = flag]

\* A client opens a connection
Connect(c) ==
    /\ sockets[c].state = "new"
    /\ sockets' = [sockets EXCEPT ![c].state = "open"]
    /\ UNCHANGED <<messagesDb, groupsDb, usersDb, connectedUsers, handlers,
                   events, now, nextId, clients>>

\* join arrives: socket.userId, the private room and the presence entry
\* are set at once; then the handler reads users.json
JoinStart(c, userId) ==
    /\ sockets[c].state = "open"
    /\ sockets[c].userId = None
    /\ sockets' = [sockets EXCEPT ![c].userId = userId,
                                  ![c].rooms = @ \cup {userId}]
    /\ connectedUsers' = [connectedUsers EXCEPT ![userId] = c]
    /\ handlers' = Append(handlers, Handler("join", c, PresenceData(userId)))
    /\ UNCHANGED <<messagesDb, groupsDb, usersDb, events, now, nextId,
                   clients>>

\* The socket closes: it leaves its rooms; with a socket.userId the presence
\* entry of that user is deleted and the handler reads users.json
Disconnect(c) ==
    /\ sockets[c].state = "open"
    /\ sockets' = [sockets EXCEPT ![c].state = "closed", ![c].rooms = {}]
    /\ IF sockets[c].userId # None
       THEN /\ connectedUsers' = [connectedUsers EXCEPT ![sockets[c].userId] = None]
            /\ handlers' = Append(handlers,
                                  Handler("disconnect", c, PresenceData(sockets[c].userId)))
       ELSE UNCHANGED <<connectedUsers, handlers>>
    /\ UNCHANGED <<messagesDb, groupsDb, usersDb, events, now, nextId,
                   clients>>

\* socket.on('join_group'): the socket enters the room named by the payload
JoinGroup(c, groupId) ==
    /\ sockets[c].state = "open"
    /\ sockets' = [sockets EXCEPT ![c].rooms = @ \cup {groupId}]
    /\ UNCHANGED <<messagesDb, groupsDb, usersDb, connectedUsers, handlers,
                   events, now, nextId, clients>>

\* socket.on('leave_group'): the socket leaves that room
LeaveGroup(c, groupId) ==
    /\ sockets[c].state = "open"
    /\ sockets' = [sockets EXCEPT ![c].rooms = @ \ {groupId}]
    /\ UNCHANGED <<messagesDb, groupsDb, usersDb, connectedUsers, handlers,
                   events, now, nextId, clients>>

\* The typing payload a client emits (SocketContext setTyping)
TypingData(sender, receiver, group, isTyping) ==
    [senderId |-> sender, receiverId |-> receiver, groupId |-> group,
     isTyping |-> isTyping, isNull |-> FALSE]

\* The user_typing payload the server relays
TypingPayload(data) == [id |-> 0, userId |-> data.senderId, isTyping |-> data.isTyping]

\* Variant: the relay emitted with io.to(room), the sender's socket included
TypingTargetsWithSender(c, data) == InRoom(SendTarget(data))

\* socket.to(room): the open sockets in the room, but the emitting one
TypingTargets(c, data) == InRoom(SendTarget(data)) \ {c}

\* The record of one run of socket.on('typing'), which has no await: it is
\* done as soon as it is started
TypingHandler(c, data) ==
    [Handler("typing", c, data) EXCEPT !.pc = "done", !.room = InRoom(SendTarget(data))]

\* The events socket.on('typing') emits when it runs as handler number by
TypingRelay(c, data, by) ==
    Emit(TypingTargets(c, data), "user_typing", TypingPayload(data), data.senderId, by)

\* A client emits typing and the server relays it
Typing(c, data) ==
    /\ sockets[c].state = "open"
    /\ handlers' = Append(handlers, TypingHandler(c, data))
    /\ events' = events \o TypingRelay(c, data, Len(handlers) + 1)
    /\ UNCHANGED <<messagesDb, groupsDb, usersDb, connectedUsers, sockets,
                   now, nextId, clients>>

-----------------------------------------------------------------------------
(* The ChatInput component of the client behind a connection *)

\* The receiverId prop: the user whose chat is open
Peer(c) == IF ConnOwner[c] = "B" THEN "A" ELSE "B"

\* handleKeyPress with a key other than Enter, followed by onChange:
\* handleTypingStart emits typing(true) when the isTyping state is false,
\* clears the pending timeout and sets a new one whose callback is the
\* handleTypingStop of this render, with this render's isTyping; the draft
\* becomes non-empty
KeyPress(c) ==
    LET cl == clients[c]
        data == TypingData(ConnOwner[c], Peer(c), None, TRUE)
    IN  /\ sockets[c].state = "open"
        /\ clients' = [clients EXCEPT ![c] =
              [cl EXCEPT !.isTyping = TRUE,
                         !.timer = [set |-> TRUE, isTyping |-> cl.isTyping],
                         !.draft = TRUE,
                         !.keys = @ + 1,
                         !.sent = IF cl.isTyping THEN @ ELSE Append(@, TRUE)]]
        /\ IF cl.isTyping
           THEN UNCHANGED <<handlers, events>>
           ELSE /\ handlers' = Append(handlers, TypingHandler(c, data))
                /\ events' = events \o TypingRelay(c, data, Len(handlers) + 1)
        /\ UNCHANGED <<messagesDb, groupsDb, usersDb, connectedUsers, sockets,
                       now, nextId>>

\* The timeout fires, 2000 ms after the last keystroke: the handleTypingStop
\* it was given emits typing(false) when the isTyping it closed over is true
DebounceElapsed(c) ==
    LET cl == clients[c]
        data == TypingData(ConnOwner[c], Peer(c), None, FALSE)
    IN  /\ sockets[c].state = "open"
        /\ cl.timer.set
        /\ clients' = [clients EXCEPT ![c] =
              [cl EXCEPT !.isTyping = IF cl.timer.isTyping THEN FALSE ELSE @,
                         !.timer = NoTimer,
                         !.sent = IF cl.timer.isTyping THEN Append(@, FALSE) ELSE @]]
        /\ IF cl.timer.isTyping
           THEN /\ handlers' = Append(handlers, TypingHandler(c, data))
                /\ events' = events \o TypingRelay(c, data, Len(handlers) + 1)
           ELSE UNCHANGED <<handlers, events>>
        /\ UNCHANGED <<messagesDb, groupsDb, usersDb, connectedUsers, sockets,
                       now, nextId>>

\* handleSend with a non-empty draft: send_message is emitted, the draft is
\* emptied, and the handleTypingStop of the current render emits
\* typing(false) when isTyping is true and clears the pending timeout
HandleSend(c) ==
    LET cl == clients[c]
        message == SendData(ConnOwner[c], Peer(c), None, "hi")
        data == TypingData(ConnOwner[c], Peer(c), None, FALSE)
        started == Append(handlers, Handler("send", c, message))
    IN  /\ sockets[c].state = "open"
        /\ cl.draft
        /\ clients' = [clients EXCEPT ![c] =
              [cl EXCEPT !.isTyping = FALSE,
                         !.timer = NoTimer,
                         !.draft = FALSE,
                         !.sent = IF cl.isTyping THEN Append(@, FALSE) ELSE @]]
        /\ IF cl.isTyping
           THEN /\ handlers' = Append(started, TypingHandler(c, data))
                /\ events' = events \o TypingRelay(c, data, Len(started) + 1)
           ELSE /\ handlers' = started
                /\ UNCHANGED events
        /\ UNCHANGED <<messagesDb, groupsDb, usersDb, connectedUsers, sockets,
                       now, nextId>>

PresenceFlag(kind) == kind = "join"

\* Variant: the handler broadcasts without awaiting the write, and for an
\* unknown user too
PresenceReadThenBroadcast(h, ok) ==
    /\ h \in DOMAIN handlers
    /\ handlers[h].kind \in {"join", "disconnect"} /\ handlers[h].pc = "read"
    /\ handlers' = SetH(h, [handlers[h] EXCEPT !.pc = "fanout"])
    /\ UNCHANGED <<messagesDb, groupsDb, usersDb, connectedUsers, sockets,
                   events, now, nextId, clients>>

\* The read of users.json completes: an unknown user ends the handler,
\* otherwise the flag is set on the copy and writeDatabase is called
PresenceRead(h, ok) ==
    /\ h \in DOMAIN handlers
    /\ handlers[h].kind \in {"join", "disconnect"} /\ handlers[h].pc = "read"
    /\ LET r == handlers[h]
           users == readDatabase(usersDb, ok)
       IN  IF FindIndex(users, LAMBDA u : u.id = r.data.userId) = 0
           THEN handlers' = SetH(h, [r EXCEPT !.pc = "done"])
           ELSE handlers' = SetH(h, [r EXCEPT
                                       !.pc = "write",
                                       !.users = SetOnline(users, r.data.userId,
                                                           PresenceFlag(r.kind))])
    /\ UNCHANGED <<messagesDb, groupsDb, usersDb, connectedUsers, sockets,
                   events, now, nextId, clients>>

PresenceWrite(h, ok) ==
    /\ h \in DOMAIN handlers
    /\ handlers[h].kind \in {"join", "disconnect"} /\ handlers[h].pc = "write"
    /\ usersDb' = writeDatabase(usersDb, handlers[h].users, ok)
    /\ handlers' = SetH(h, [handlers[h] EXCEPT !.pc = "fanout", !.users = <<>>,
                                               !.wrote = ok])
    /\ UNCHANGED <<messagesDb, groupsDb, connectedUsers, sockets, events, now,
                   nextId, clients>>

PresenceEvent(kind) == IF kind = "join" THEN "user_online" ELSE "user_offline"

\* The handler resumes after the write and broadcasts the presence change
PresenceEmit(h) ==
    /\ h \in DOMAIN handlers
    /\ handlers[h].kind \in {"join", "disconnect"} /\ handlers[h].pc = "fanout"
    /\ events' = events \o Broadcast(handlers[h].sock, PresenceEvent(handlers[h].kind),
                                      handlers[h].data.userId, h)
    /\ handlers' = SetH(h, [handlers[h] EXCEPT !.pc = "done"])
    /\ UNCHANGED <<messagesDb, groupsDb, usersDb, connectedUsers, sockets,
                   now, nextId, clients>>

-----------------------------------------------------------------------------
(* app.post('/api/register') *)

\* The request arrives with all fields present; the handler reads users.json.
\* A user is identified by the id the registration will give it: username
\* and email are unique per user in the observed behaviours.
RegisterStart(userId) ==
    /\ handlers' = Append(handlers, Handler("register", None, PresenceData(userId)))
    /\ UNCHANGED <<messagesDb, groupsDb, usersDb, connectedUsers, sockets,
                   events, now, nextId, clients>>

\* The read completes: an existing user ends the request with status 400,
\* otherwise the new record (isOnline: false) is pushed on the handler's
\* copy of the array, and after the password hash writeDatabase is called
RegisterRead(h, ok) ==
    /\ h \in DOMAIN handlers
    /\ handlers[h].kind = "register" /\ handlers[h].pc = "read"
    /\ LET r == handlers[h]
           users == readDatabase(usersDb, ok)
       IN  IF FindIndex(users, LAMBDA u : u.id = r.data.userId) # 0
           THEN handlers' = SetH(h, [r EXCEPT !.pc = "done"])
           ELSE handlers' = SetH(h, [r EXCEPT
                                       !.pc = "write",
                                       !.users = Append(users,
                                           [id |-> r.data.userId,
                                            isOnline |-> FALSE])])
    /\ UNCHANGED <<messagesDb, groupsDb, usersDb, connectedUsers, sockets,
                   events, now, nextId, clients>>

\* The write takes effect and the response carries the token
RegisterWrite(h, ok) ==
    /\ h \in DOMAIN handlers
    /\ handlers[h].kind = "register" /\ handlers[h].pc = "write"
    /\ usersDb' = writeDatabase(usersDb, handlers[h].users, ok)
    /\ handlers' = SetH(h, [handlers[h] EXCEPT !.pc = "done", !.users = <<>>,
                                               !.wrote = ok])
    /\ UNCHANGED <<messagesDb, groupsDb, connectedUsers, sockets, events, now,
                   nextId, clients>>

-----------------------------------------------------------------------------
(* The client's message cache: SocketProvider listeners, conversationStorage *)
(* and the ChatRoom page                                                     *)

\* The events emitted to connection c so far, in order
EventsTo(c) == SelectSeq(events, LAMBDA e : e.to = c)

\* messages.map(m => m.id === message.id ? message : m)
MapReplace(messages, message) ==
    [i \in DOMAIN messages |->
        IF messages[i].id = message.id THEN message ELSE messages[i]]

\* The conversation a direct message belongs to for user me
ConversationId(me, message) ==
    IF message.senderId = me THEN message.receiverId ELSE message.senderId

\* conversationStorage.addMessage
addMessage(cache, conversationId, message) ==
    [cache EXCEPT ![conversationId] = Append(@, message)]

\* conversationStorage.incrementUnreadCount
incrementUnreadCount(unread, conversationId) ==
    [unread EXCEPT ![conversationId] = @ + 1]

\* Variant: every counter is reset
clearUnreadCountAll(unread, conversationId) == [u \in DOMAIN unread |-> 0]

\* conversationStorage.clearUnreadCount
clearUnreadCount(unread, conversationId) ==
    [unread EXCEPT ![conversationId] = 0]

\* The SocketProvider's listeners, for the client cl of user me: a listener
\* that is no longer registered does not run
ProviderOn(cl, me, e) ==
    LET message == e.msg
    IN  IF e.type \notin PushEvents THEN cl
        ELSE IF ~cl.listening[e.type] THEN cl
        ELSE IF e.type = "receive_message"
        THEN IF message.groupId # None
             THEN [cl EXCEPT !.groupCache = addMessage(@, message.groupId, message)]
             ELSE LET conversationId == ConversationId(me, message)
                  IN  [cl EXCEPT
                         !.cache = addMessage(@, conversationId, message),
                         !.unread = IF message.senderId # me
                                    THEN incrementUnreadCount(@, conversationId)
                                    ELSE @]
        ELSE IF e.type = "message_sent"
        THEN IF message.groupId # None
             THEN [cl EXCEPT !.groupCache = addMessage(@, message.groupId, message)]
             ELSE [cl EXCEPT !.cache = addMessage(@, message.receiverId, message)]
        ELSE IF message.groupId # None
             THEN [cl EXCEPT !.groupCache[message.groupId] = MapReplace(@, message)]
             ELSE [cl EXCEPT !.cache[ConversationId(me, message)] =
                                 MapReplace(@, message)]

\* The SocketProvider's listeners of user_online, user_offline and
\* user_typing
StatusOn(cl, e) ==
    IF e.type = "user_online"
    THEN [cl EXCEPT !.onlineUsers = @ \cup {e.user}]
    ELSE IF e.type = "user_offline"
    THEN [cl EXCEPT !.onlineUsers = @ \ {e.user}]
    ELSE IF e.type = "user_typing"
    THEN [cl EXCEPT !.typingUsers = IF e.msg.isTyping
                                    THEN @ \cup {e.msg.userId}
                                    ELSE @ \ {e.msg.userId}]
    ELSE cl

\* The listeners of the mounted ChatRoom
ChatRoomOn(cl, e) ==
    LET message == e.msg
        userId == cl.view.userId
    IN  IF cl.page # "chat" \/ e.type \notin PushEvents THEN cl
        ELSE IF e.type = "receive_message"
        THEN IF message.senderId = userId \/ message.receiverId = userId
             THEN [cl EXCEPT !.view.messages = Append(@, message)]
             ELSE cl
        ELSE IF e.type = "message_sent"
        THEN [cl EXCEPT !.view.messages = Append(@, message)]
        ELSE [cl EXCEPT !.view.messages = MapReplace(@, message)]

\* The next event of connection c reaches the browser: the listeners of its
\* type run, the SocketProvider's first
HandleEvent(c) ==
    /\ clients[c].seen < Len(EventsTo(c))
    /\ LET e == EventsTo(c)[clients[c].seen + 1]
           cl == ChatRoomOn(ProviderOn(StatusOn(clients[c], e),
                                        ConnOwner[c], e), e)
       IN  clients' = [clients EXCEPT ![c] = [cl EXCEPT !.seen = @ + 1]]
    /\ UNCHANGED <<messagesDb, groupsDb, usersDb, connectedUsers, sockets,
                   handlers, events, now, nextId>>

\* The cleanup of the page that leaves the screen: socket.off(event) without
\* a listener argument removes every listener of the event
Cleanup(cl) ==
    [cl EXCEPT !.listening =
        [t \in PushEvents |->
            IF cl.page = "chat" THEN FALSE
            ELSE IF cl.page = "chats" /\ t \in {"receive_message", "message_sent"}
            THEN FALSE
            ELSE @[t]]]

\* A request of fetchMessages on its way to the server
Request(userId, mount) ==
    [userId |-> userId, mount |-> mount, state |-> "sent", data |-> <<>>]

\* The ChatRoom effects for parameter userId: loadCachedData, fetchMessages,
\* clearUnreadCount.  A ChatRoom that was on screen already keeps its
\* messages state when the cache of the new conversation is empty.
MountChatRoom(cl, userId) ==
    LET mount == IF cl.page = "chat" THEN cl.view.mount ELSE cl.opens
        shown == IF cl.page = "chat" THEN cl.view.messages ELSE <<>>
        cachedMessages == cl.cache[userId]
    IN  [cl EXCEPT
           !.view = [userId |-> userId, mount |-> mount,
                     messages |-> IF Len(cachedMessages) > 0
                                  THEN cachedMessages ELSE shown],
           !.fetches = Append(@, Request(userId, mount)),
           !.unread = clearUnreadCount(@, userId),
           !.page = "chat"]

\* The user of c goes to another page: the Chats list, the ChatRoom of
\* userId, or a page without socket listeners
Navigate(c, page, userId) ==
    /\ <<page, userId>> # <<clients[c].page, clients[c].view.userId>>
    /\ LET left == [Cleanup(clients[c]) EXCEPT !.opens = @ + 1]
       IN  clients' = [clients EXCEPT ![c] =
              IF page = "chat" THEN MountChatRoom(left, userId)
              ELSE [left EXCEPT !.page = page, !.view = NoView]]
    /\ UNCHANGED <<messagesDb, groupsDb, usersDb, connectedUsers, sockets,
                   handlers, events, now, nextId>>

\* The server answers request i of client c with the conversation read at
\* that moment, or with status 500 when the read fails
FetchServe(c, i, ok) ==
    /\ i \in DOMAIN clients[c].fetches
    /\ clients[c].fetches[i].state = "sent"
    /\ clients' = [clients EXCEPT ![c].fetches[i] =
          IF ok
          THEN [@ EXCEPT !.state = "answered",
                         !.data = Conversation(readDatabase(messagesDb, ok),
                                               ConnOwner[c],
                                               clients[c].fetches[i].userId)]
          ELSE [@ EXCEPT !.state = "failed"]]
    /\ UNCHANGED <<messagesDb, groupsDb, usersDb, connectedUsers, sockets,
                   handlers, events, now, nextId>>

\* Variant: the snapshot is appended to what the client holds
ApplySnapshotAppend(cl, f) ==
    [cl EXCEPT
       !.view.messages = IF cl.page = "chat" /\ cl.view.mount = f.mount
                         THEN @ \o f.data ELSE @,
       !.cache[f.userId] = @ \o f.data]

\* The response of request f arrives: setMessages(data) on the ChatRoom that
\* issued it, if that is still mounted, and conversationStorage.setMessages
\* for the userId the request was made for
ApplySnapshot(cl, f) ==
    [cl EXCEPT
       !.view.messages = IF cl.page = "chat" /\ cl.view.mount = f.mount
                         THEN f.data ELSE @,
       !.cache[f.userId] = f.data]

FetchApply(c, i) ==
    /\ i \in DOMAIN clients[c].fetches
    /\ clients[c].fetches[i].state = "answered"
    /\ clients' = [clients EXCEPT ![c] =
          [ApplySnapshot(clients[c], clients[c].fetches[i]) EXCEPT
              !.fetches[i].state = "applied"]]
    /\ UNCHANGED <<messagesDb, groupsDb, usersDb, connectedUsers, sockets,
                   handlers, events, now, nextId>>

\* storage.clear(): every cache key of the app is removed
storageClear(cl) ==
    [cl EXCEPT !.cache = [u \in Users |-> <<>>],
               !.groupCache = [g \in GroupIds |-> <<>>],
               !.unread = [u \in Users |-> 0]]

\* logout: user and token are set to null and the cache is cleared.  The
\* render that follows leaves the page for the login page and runs the
\* cleanup of the SocketProvider, which closes the socket: the server
\* handles the disconnect as in Disconnect.
Logout(c) ==
    /\ clients[c].page # "login"
    /\ sockets[c].state = "open" /\ sockets[c].userId # None
    /\ clients' = [clients EXCEPT ![c] =
          [storageClear(clients[c]) EXCEPT !.page = "login", !.view = NoView]]
    /\ sockets' = [sockets EXCEPT ![c].state = "closed", ![c].rooms = {}]
    /\ connectedUsers' = [connectedUsers EXCEPT ![sockets[c].userId] = None]
    /\ handlers' = Append(handlers,
                          Handler("disconnect", c, PresenceData(sockets[c].userId)))
    /\ UNCHANGED <<messagesDb, groupsDb, usersDb, events, now, nextId>>

-----------------------------------------------------------------------------
(* Quiescent server states the observed behaviours start from *)

\* Every client has opened its socket and its join has completed:
\* socket.userId = userId, socket.join(userId), connectedUsers.set(userId, id)
JoinedSockets ==
    [c \in Conns |-> [state |-> "open", userId |-> ConnOwner[c],
                      rooms |-> {ConnOwner[c]}]]

LastConnOf(u) ==
    ConnOrder[CHOOSE i \in DOMAIN ConnOrder :
                 /\ ConnOwner[ConnOrder[i]] = u
                 /\ \A j \in DOMAIN ConnOrder :
                        ConnOwner[ConnOrder[j]] = u => j <= i]

UserOrder == <<"A", "B", "C">>

\* The member arrays clients post to /api/groups for the group of A, B and C
MemberInputs == {<<"B", "C">>, <<"A", "B", "C", "B">>}

\* A stored direct message from A to B, and the reaction lists it can carry
StoredMessage(reactions) ==
    [NewMessage(1, SendData("A", "B", None, "hi"), 0) EXCEPT !.reactions = reactions]

Reaction(u, e) == [userId |-> u, emoji |-> e, createdAt |-> 0]

StoredReactions ==
    {<<>>, <<Reaction("B", "heart"), Reaction("A", "up")>>}

\* Everything but the stored groups and messages
InitConnected ==
    /\ sockets = JoinedSockets
    /\ connectedUsers = [u \in Users |-> LastConnOf(u)]
    /\ usersDb = [i \in DOMAIN UserOrder |-> [id |-> UserOrder[i], isOnline |-> TRUE]]
    /\ handlers = <<>>
    /\ events = <<>>
    /\ now = 0
    /\ clients = [c \in Conns |-> ClientInit]

InitJoined ==
    /\ InitConnected
    /\ \E members \in MemberInputs : groupsDb = <<NewGroup("G", "A", members)>>

\* The member arrays posted for a group that C may or may not belong to
RoomMemberInputs == {<<"B">>, <<"B", "C">>}

\* Group G is stored, with or without C; no message has been sent yet
InitRooms ==
    /\ InitConnected
    /\ \E members \in RoomMemberInputs : groupsDb = <<NewGroup("G", "A", members)>>
    /\ messagesDb = <<>>
    /\ nextId = 0

\* No message has been sent yet
Init ==
    /\ InitJoined
    /\ messagesDb = <<>>
    /\ nextId = 0

\* One direct message is stored
InitReact ==
    /\ InitJoined
    /\ \E reactions \in StoredReactions : messagesDb = <<StoredMessage(reactions)>>
    /\ nextId = 1

\* A stored message of A to the group
StoredGroupMessage == NewMessage(2, SendData("A", None, "G", "hi"), 0)

\* A direct message and a group message are stored
InitStored ==
    /\ InitJoined
    /\ \E reactions \in StoredReactions :
          messagesDb = <<StoredMessage(reactions), StoredGroupMessage>>
    /\ nextId = 2

\* Group G is stored, with or without C, and so are a direct message of A to
\* B and a message of A to the group
InitUpdate ==
    /\ InitConnected
    /\ \E members \in RoomMemberInputs : groupsDb = <<NewGroup("G", "A", members)>>
    /\ messagesDb = <<StoredMessage(<<>>), StoredGroupMessage>>
    /\ nextId = 2

\* The one connection of B that is open is b1; the second device of B has
\* not connected yet
InitOffline ==
    /\ sockets = [JoinedSockets EXCEPT
                     !["b2"] = [state |-> "new", userId |-> None, rooms |-> {}]]
    /\ connectedUsers = [[u \in Users |-> LastConnOf(u)] EXCEPT !["B"] = "b1"]
    /\ usersDb = [i \in DOMAIN UserOrder |-> [id |-> UserOrder[i], isOnline |-> TRUE]]
    /\ groupsDb = <<NewGroup("G", "A", <<"B", "C">>)>>
    /\ messagesDb = <<>>
    /\ handlers = <<>>
    /\ events = <<>>
    /\ now = 0
    /\ nextId = 0
    /\ clients = [c \in Conns |-> ClientInit]

\* A stored direct message from C to B
StoredMessageOfC == NewMessage(2, SendData("C", "B", None, "hi"), 0)

\* A and C have each sent a message to B: the messages are stored and their
\* receive_message events have been emitted to B's connections, whose
\* browsers have not handled them yet
InitView ==
    /\ sockets = JoinedSockets
    /\ connectedUsers = [u \in Users |-> LastConnOf(u)]
    /\ usersDb = [i \in DOMAIN UserOrder |-> [id |-> UserOrder[i], isOnline |-> TRUE]]
    /\ groupsDb = <<NewGroup("G", "A", <<"B", "C">>)>>
    /\ messagesDb = <<StoredMessage(<<>>), StoredMessageOfC>>
    /\ handlers = <<>>
    /\ events = Emit(InRoom("B"), "receive_message", StoredMessage(<<>>), None, 0)
                \o Emit(InRoom("B"), "receive_message", StoredMessageOfC, None, 0)
    /\ now = 0
    /\ nextId = 2
    /\ clients = [c \in Conns |-> ClientInit]

\* A and B have joined; the socket of C's browser is connected and has not
\* emitted join yet
InitJoin ==
    /\ sockets = [JoinedSockets EXCEPT
                     !["c1"] = [state |-> "open", userId |-> None, rooms |-> {}]]
    /\ connectedUsers = [[u \in Users |-> LastConnOf(u)] EXCEPT !["C"] = None]
    /\ usersDb = [i \in DOMAIN UserOrder |->
                    [id |-> UserOrder[i], isOnline |-> UserOrder[i] # "C"]]
    /\ groupsDb = <<NewGroup("G", "A", <<"B", "C">>)>>
    /\ messagesDb = <<>>
    /\ handlers = <<>>
    /\ events = <<>>
    /\ now = 0
    /\ nextId = 0
    /\ clients = [c \in Conns |-> ClientInit]

\* The server has started; A and B have a record in users.json and C, whose
\* browser still holds a token, has none; no client is connected
InitNoRecord ==
    /\ sockets = [c \in Conns |-> [state |-> "new", userId |-> None, rooms |-> {}]]
    /\ connectedUsers = [u \in Users |-> None]
    /\ usersDb = <<[id |-> "A", isOnline |-> FALSE], [id |-> "B", isOnline |-> FALSE]>>
    /\ groupsDb = <<>>
    /\ messagesDb = <<>>
    /\ handlers = <<>>
    /\ events = <<>>
    /\ now = 0
    /\ nextId = 0
    /\ clients = [c \in Conns |-> ClientInit]

\* The server has started and the users have registered (isOnline: false);
\* no client is connected
InitPresence ==
    /\ sockets = [c \in Conns |-> [state |-> "new", userId |-> None, rooms |-> {}]]
    /\ connectedUsers = [u \in Users |-> None]
    /\ usersDb = [i \in DOMAIN UserOrder |-> [id |-> UserOrder[i], isOnline |-> FALSE]]
    /\ groupsDb = <<>>
    /\ messagesDb = <<>>
    /\ handlers = <<>>
    /\ events = <<>>
    /\ now = 0
    /\ nextId = 0
    /\ clients = [c \in Conns |-> ClientInit]

-----------------------------------------------------------------------------
(* Inputs *)

\* The connections that open and close in the observed presence behaviours
PresenceConns == {"a1", "b1", "b2"}

\* What the client of connection c puts in send_message: senderId is the
\* logged-in user; the target is a user or a group
SendInputs(c) ==
    {SendData(ConnOwner[c], u, None, text) : u \in Users, text \in Contents}
    \cup {SendData(ConnOwner[c], None, g, text) : g \in GroupIds, text \in Contents}

\* What the client of connection c puts in message_reaction
ReactInputs(c) ==
    {ReactData(m, ConnOwner[c], e) : m \in 1..nextId, e \in Emojis}

\* The connections whose clients send and react in the observed behaviours;
\* the others only receive
Senders == {"a1", "b1"}

Reactors == {"a1", "b1", "b2"}

\* The send_message payloads a socket client can submit: any combination of
\* a receiverId and a groupId, each present or absent, the group stored or not
PayloadSendInputs(c) ==
    {SendData(ConnOwner[c], u, g, text) :
        u \in {"B", None}, g \in GroupIds \cup {UnknownGroup, None},
        text \in Contents}

\* The message_reaction payloads a socket client can submit: the id of a
\* message it has seen, or an id no message carries (ids start at 1)
PayloadReactInputs(c) ==
    {ReactData(m, ConnOwner[c], e) : m \in 0..nextId, e \in {"up"}}

\* The connections whose clients emit join_group / leave_group
RoomJoiners == {"b1", "c1"}

\* The connection whose client sends to the group while they do
GroupSenders == {"a1"}

\* A send_message to a group
GroupSendInputs(c) ==
    {SendData(ConnOwner[c], None, g, text) : g \in GroupIds, text \in Contents}

\* The connections whose clients react to the stored messages, one per user
UpdateReactors == {"a1", "b1", "c1"}

\* A message_reaction on a stored message
UpdateInputs(c) == {ReactData(m, ConnOwner[c], "up") : m \in 1..nextId}

\* The direct messages A sends while B's connections come and go
OfflineInputs == {SendData("A", "B", None, text) : text \in Contents}

\* The connections whose users type in a ChatInput
Typists == {"a1"}

\* The connections whose clients emit typing signals
TypingConns == {"a1", "b1"}

\* The typing payloads of a client: for the chat with its peer, or for a group
TypingInputs(c) ==
    {TypingData(ConnOwner[c], Peer(c), None, flag) : flag \in BOOLEAN}
    \cup {TypingData(ConnOwner[c], None, g, flag) : g \in GroupIds, flag \in BOOLEAN}

\* The connection that closes while its handlers run
Closers == {"a1"}

\* What its client had emitted before: a message to B or to the group
CloseSendInputs(c) == OfflineInputs \cup GroupSendInputs(c)

\* Its reactions are on the two messages it has on screen from the start
CloseReactInputs(c) ==
    {ReactData(m.id, ConnOwner[c], "up") : m \in {StoredMessage(<<>>), StoredGroupMessage}}

\* The ids of the messages in the collection
StoredIds == {messagesDb[i].id : i \in DOMAIN messagesDb}

\* The connection whose browser is observed
Viewers == {"b1"}

\* The pages its user goes to: the Chats list, the ChatRoom with A or with
\* themselves, and a page without socket listeners
Pages == {<<"chats", None>>, <<"chat", "A">>, <<"chat", "B">>, <<"other", None>>}

\* The connections whose users write to B: A, C and B themselves
CacheSenders == {"a1", "b1", "c1"}

\* A direct message to B
CacheSendInputs(c) == {SendData(ConnOwner[c], "B", None, text) : text \in Contents}

\* A reaction of A on a message that is stored
CacheReactInputs(c) == {ReactData(id, ConnOwner[c], "up") : id \in StoredIds}

\* The connections that open and close while C has no record
OrderConns == {"a1", "b1", "c1"}

\* The connection whose client emits join with a user id of its choice
Joiners == {"c1"}

\* new Date(): the clock has advanced since the last reading
Later == {now + 1}

-----------------------------------------------------------------------------
(* Specifications *)

SendNext ==
    \/ /\ Started("send") < MaxSends
       /\ \E c \in Senders : \E data \in SendInputs(c) : SendStart(c, data)
    \/ \E h \in DOMAIN handlers : \E t \in Later : SendRead(h, TRUE, t)
    \/ \E h \in DOMAIN handlers : SendWrite(h, TRUE)
    \/ \E h \in DOMAIN handlers : SendEmit(h, TRUE)

ReactNext ==
    \/ /\ Started("react") < MaxReacts
       /\ \E c \in Reactors : \E data \in ReactInputs(c) : ReactStart(c, data)
    \/ \E h \in DOMAIN handlers : \E t \in Later : ReactRead(h, TRUE, t)
    \/ \E h \in DOMAIN handlers : ReactWrite(h, TRUE)
    \/ \E h \in DOMAIN handlers : ReactEmit(h, TRUE)

\* Sends and reactions together
Next ==
    \/ /\ Len(handlers) < MaxHandlers
       /\ \E c \in Senders : \E data \in SendInputs(c) : SendStart(c, data)
    \/ \E h \in DOMAIN handlers : \E t \in Later : SendRead(h, TRUE, t)
    \/ \E h \in DOMAIN handlers : SendWrite(h, TRUE)
    \/ \E h \in DOMAIN handlers : SendEmit(h, TRUE)
    \/ /\ Len(handlers) < MaxHandlers
       /\ \E c \in Reactors : \E data \in ReactInputs(c) : ReactStart(c, data)
    \/ \E h \in DOMAIN handlers : \E t \in Later : ReactRead(h, TRUE, t)
    \/ \E h \in DOMAIN handlers : ReactWrite(h, TRUE)
    \/ \E h \in DOMAIN handlers : ReactEmit(h, TRUE)

\* Sends and reactions on a disk whose writes can fail, from clients that
\* can also send a payload that is not an object
FaultNext ==
    \/ /\ Len(handlers) < MaxHandlers
       /\ \E c \in Senders : \E data \in SendInputs(c) \cup {NullData} :
             SendStart(c, data)
    \/ \E h \in DOMAIN handlers : \E t \in Later : SendRead(h, TRUE, t)
    \/ \E h \in DOMAIN handlers : \E ok \in BOOLEAN : SendWrite(h, ok)
    \/ \E h \in DOMAIN handlers : SendEmit(h, TRUE)
    \/ /\ Len(handlers) < MaxHandlers
       /\ \E c \in Reactors : \E data \in ReactInputs(c) \cup {NullData} :
             ReactStart(c, data)
    \/ \E h \in DOMAIN handlers : \E t \in Later : ReactRead(h, TRUE, t)
    \/ \E h \in DOMAIN handlers : \E ok \in BOOLEAN : ReactWrite(h, ok)
    \/ \E h \in DOMAIN handlers : ReactEmit(h, TRUE)

\* Sends and reactions with the payloads any socket client can submit
PayloadNext ==
    \/ /\ Len(handlers) < MaxHandlers
       /\ \E c \in Senders : \E data \in PayloadSendInputs(c) : SendStart(c, data)
    \/ \E h \in DOMAIN handlers : \E t \in Later : SendRead(h, TRUE, t)
    \/ \E h \in DOMAIN handlers : SendWrite(h, TRUE)
    \/ \E h \in DOMAIN handlers : SendEmit(h, TRUE)
    \/ /\ Len(handlers) < MaxHandlers
       /\ \E c \in Reactors : \E data \in PayloadReactInputs(c) : ReactStart(c, data)
    \/ \E h \in DOMAIN handlers : \E t \in Later : ReactRead(h, TRUE, t)
    \/ \E h \in DOMAIN handlers : ReactWrite(h, TRUE)
    \/ \E h \in DOMAIN handlers : ReactEmit(h, TRUE)

\* Group sends while sockets enter and leave the group's room
GroupNext ==
    \/ \E c \in RoomJoiners : \E g \in GroupIds : JoinGroup(c, g)
    \/ \E c \in RoomJoiners : \E g \in GroupIds : LeaveGroup(c, g)
    \/ /\ Started("send") < MaxSends
       /\ \E c \in GroupSenders : \E data \in GroupSendInputs(c) : SendStart(c, data)
    \/ \E h \in DOMAIN handlers : \E t \in Later : SendRead(h, TRUE, t)
    \/ \E h \in DOMAIN handlers : SendWrite(h, TRUE)
    \/ \E h \in DOMAIN handlers : SendEmit(h, TRUE)

\* Reactions of every user on a direct and on a group message
UpdateNext ==
    \/ /\ Started("react") < MaxReacts
       /\ \E c \in UpdateReactors : \E data \in UpdateInputs(c) : ReactStart(c, data)
    \/ \E h \in DOMAIN handlers : \E t \in Later : ReactRead(h, TRUE, t)
    \/ \E h \in DOMAIN handlers : ReactWrite(h, TRUE)
    \/ \E h \in DOMAIN handlers : ReactEmit(h, TRUE)

\* A sends to B while the first device of B disconnects and the second one
\* connects, joins and fetches the conversation
OfflineNext ==
    \/ Disconnect("b1")
    \/ Connect("b2")
    \/ JoinStart("b2", ConnOwner["b2"])
    \/ \E h \in DOMAIN handlers : PresenceRead(h, TRUE)
    \/ \E h \in DOMAIN handlers : PresenceWrite(h, TRUE)
    \/ \E h \in DOMAIN handlers : PresenceEmit(h)
    \/ /\ Started("send") < MaxSends
       /\ \E data \in OfflineInputs : SendStart("a1", data)
    \/ \E h \in DOMAIN handlers : \E t \in Later : SendRead(h, TRUE, t)
    \/ \E h \in DOMAIN handlers : SendWrite(h, TRUE)
    \/ \E h \in DOMAIN handlers : SendEmit(h, TRUE)
    \/ Fetch("b2", "A", TRUE)

\* A user types in the ChatInput of a chat and sends
ChatInputNext ==
    \/ \E c \in Typists : clients[c].keys < MaxKeys /\ KeyPress(c)
    \/ \E c \in Typists : DebounceElapsed(c)
    \/ \E c \in Typists : Started("send") < MaxSends /\ HandleSend(c)
    \/ \E h \in DOMAIN handlers : \E t \in Later : SendRead(h, TRUE, t)
    \/ \E h \in DOMAIN handlers : SendWrite(h, TRUE)
    \/ \E h \in DOMAIN handlers : SendEmit(h, TRUE)

\* Typing signals for a chat and for the group, while sockets enter and
\* leave the group's room
TypingNext ==
    \/ /\ Started("typing") < MaxTyping
       /\ \E c \in TypingConns : \E data \in TypingInputs(c) : Typing(c, data)
    \/ \E c \in RoomJoiners : \E g \in GroupIds : JoinGroup(c, g)
    \/ \E c \in RoomJoiners : \E g \in GroupIds : LeaveGroup(c, g)

PresenceNext ==
    \/ \E c \in PresenceConns : Connect(c)
    \/ /\ Len(handlers) < MaxPresence
       /\ \E c \in PresenceConns : JoinStart(c, ConnOwner[c])
    \/ /\ Len(handlers) < MaxPresence
       /\ \E c \in PresenceConns : Disconnect(c)
    \/ \E h \in DOMAIN handlers : PresenceRead(h, TRUE)
    \/ \E h \in DOMAIN handlers : PresenceWrite(h, TRUE)
    \/ \E h \in DOMAIN handlers : PresenceEmit(h)

\* A step of a handler that has been started: the event loop resumes it
\* after its await, whatever became of the socket it belongs to
Resume ==
    \/ \E h \in DOMAIN handlers : \E t \in Later : SendRead(h, TRUE, t)
    \/ \E h \in DOMAIN handlers : SendWrite(h, TRUE)
    \/ \E h \in DOMAIN handlers : SendEmit(h, TRUE)
    \/ \E h \in DOMAIN handlers : \E t \in Later : ReactRead(h, TRUE, t)
    \/ \E h \in DOMAIN handlers : ReactWrite(h, TRUE)
    \/ \E h \in DOMAIN handlers : ReactEmit(h, TRUE)
    \/ \E h \in DOMAIN handlers : PresenceRead(h, TRUE)
    \/ \E h \in DOMAIN handlers : PresenceWrite(h, TRUE)
    \/ \E h \in DOMAIN handlers : PresenceEmit(h)

\* A sends and reacts, and its connection closes at any point
CloseNext ==
    \/ /\ Started("send") + Started("react") < MaxClose
       /\ \E c \in Closers : \E data \in CloseSendInputs(c) : SendStart(c, data)
    \/ /\ Started("send") + Started("react") < MaxClose
       /\ \E c \in Closers : \E data \in CloseReactInputs(c) : ReactStart(c, data)
    \/ \E c \in Closers : Disconnect(c)
    \/ Resume

\* A, B and C write to B and A reacts, while the browser of b1 handles the
\* events it is sent, goes from page to page and fetches conversations
CacheNext ==
    \/ /\ Len(handlers) < MaxHandlers
       /\ \E c \in CacheSenders : \E data \in CacheSendInputs(c) : SendStart(c, data)
    \/ \E h \in DOMAIN handlers : \E t \in Later : SendRead(h, TRUE, t)
    \/ \E h \in DOMAIN handlers : SendWrite(h, TRUE)
    \/ \E h \in DOMAIN handlers : SendEmit(h, TRUE)
    \/ /\ Len(handlers) < MaxHandlers
       /\ \E data \in CacheReactInputs("a1") : ReactStart("a1", data)
    \/ \E h \in DOMAIN handlers : \E t \in Later : ReactRead(h, TRUE, t)
    \/ \E h \in DOMAIN handlers : ReactWrite(h, TRUE)
    \/ \E h \in DOMAIN handlers : ReactEmit(h, TRUE)
    \/ \E c \in Viewers : HandleEvent(c)
    \/ \E c \in Viewers : \E p \in Pages :
          clients[c].opens < MaxOpens /\ Navigate(c, p[1], p[2])
    \/ \E c \in Viewers : \E i \in DOMAIN clients[c].fetches : FetchServe(c, i, TRUE)
    \/ \E c \in Viewers : \E i \in DOMAIN clients[c].fetches : FetchApply(c, i)

\* The browser of b1 handles the events it was sent, goes from page to page
\* and fetches conversations
ViewNext ==
    \/ \E c \in Viewers : HandleEvent(c)
    \/ \E c \in Viewers : \E p \in Pages :
          clients[c].opens < MaxVisits /\ Navigate(c, p[1], p[2])
    \/ \E c \in Viewers : \E i \in DOMAIN clients[c].fetches : FetchServe(c, i, TRUE)
    \/ \E c \in Viewers : \E i \in DOMAIN clients[c].fetches : FetchApply(c, i)

\* The client of C's connection emits join with any user id, while A sends
\* messages to B
JoinNext ==
    \/ \E c \in Joiners : \E userId \in Users : JoinStart(c, userId)
    \/ \E h \in DOMAIN handlers : PresenceRead(h, TRUE)
    \/ \E h \in DOMAIN handlers : PresenceWrite(h, TRUE)
    \/ \E h \in DOMAIN handlers : PresenceEmit(h)
    \/ /\ Started("send") < MaxSends
       /\ \E data \in OfflineInputs : SendStart("a1", data)
    \/ \E h \in DOMAIN handlers : \E t \in Later : SendRead(h, TRUE, t)
    \/ \E h \in DOMAIN handlers : SendWrite(h, TRUE)
    \/ \E h \in DOMAIN handlers : SendEmit(h, TRUE)

\* Connections of A, B and C open, join and close
OrderNext ==
    \/ \E c \in OrderConns : Connect(c)
    \/ /\ Len(handlers) < MaxPresence
       /\ \E c \in OrderConns : JoinStart(c, ConnOwner[c])
    \/ /\ Len(handlers) < MaxPresence
       /\ \E c \in OrderConns : Disconnect(c)
    \/ \E h \in DOMAIN handlers : PresenceRead(h, TRUE)
    \/ \E h \in DOMAIN handlers : PresenceWrite(h, TRUE)
    \/ \E h \in DOMAIN handlers : PresenceEmit(h)

\* C registers while connections of A and B open, join and close
RegisterNext ==
    \/ Len(handlers) < MaxPresence /\ RegisterStart("C")
    \/ \E h \in DOMAIN handlers : RegisterRead(h, TRUE)
    \/ \E h \in DOMAIN handlers : RegisterWrite(h, TRUE)
    \/ \E c \in PresenceConns : Connect(c)
    \/ /\ Len(handlers) < MaxPresence
       /\ \E c \in PresenceConns : JoinStart(c, ConnOwner[c])
    \/ /\ Len(handlers) < MaxPresence
       /\ \E c \in PresenceConns : Disconnect(c)
    \/ \E h \in DOMAIN handlers : PresenceRead(h, TRUE)
    \/ \E h \in DOMAIN handlers : PresenceWrite(h, TRUE)
    \/ \E h \in DOMAIN handlers : PresenceEmit(h)

\* The clients of A and B connect, join and close; each shows the presence
\* events that reach it
OnlineConns == {"a1", "b1"}

OnlineNext ==
    \/ \E c \in OnlineConns : Connect(c)
    \/ /\ Len(handlers) < MaxPresence
       /\ \E c \in OnlineConns : JoinStart(c, ConnOwner[c])
    \/ /\ Len(handlers) < MaxPresence
       /\ \E c \in OnlineConns : Disconnect(c)
    \/ \E h \in DOMAIN handlers : PresenceRead(h, TRUE)
    \/ \E h \in DOMAIN handlers : PresenceWrite(h, TRUE)
    \/ \E h \in DOMAIN handlers : PresenceEmit(h)
    \/ \E c \in OnlineConns : HandleEvent(c)

\* The browser of b1 handles events, opens chats and fetches, and its user
\* logs out; responses keep arriving afterwards, events do not (the socket
\* is closed)
LogoutNext ==
    \/ \E c \in Viewers : clients[c].page # "login" /\ HandleEvent(c)
    \/ \E c \in Viewers : \E p \in Pages :
          /\ clients[c].page # "login" /\ clients[c].opens < MaxVisits
          /\ Navigate(c, p[1], p[2])
    \/ \E c \in Viewers : \E i \in DOMAIN clients[c].fetches : FetchServe(c, i, TRUE)
    \/ \E c \in Viewers : \E i \in DOMAIN clients[c].fetches : FetchApply(c, i)
    \/ \E c \in Viewers : Logout(c)
    \/ \E h \in DOMAIN handlers : PresenceRead(h, TRUE)
    \/ \E h \in DOMAIN handlers : PresenceWrite(h, TRUE)
    \/ \E h \in DOMAIN handlers : PresenceEmit(h)

\* A types in the chat with B and may close the browser at any point; the
\* browser of b1 handles the events it is sent
IndicatorNext ==
    \/ \E c \in Typists : clients[c].keys < MaxKeys /\ KeyPress(c)
    \/ \E c \in Typists : DebounceElapsed(c)
    \/ \E c \in Typists : Disconnect(c)
    \/ \E h \in DOMAIN handlers : PresenceRead(h, TRUE)
    \/ \E h \in DOMAIN handlers : PresenceWrite(h, TRUE)
    \/ \E h \in DOMAIN handlers : PresenceEmit(h)
    \/ \E c \in Viewers : HandleEvent(c)

\* The server takes senderId and userId from the payload, whatever the
\* socket has joined as: a socket client can submit any user id in them
AnySenderInputs == {SendData(u, "B", None, "hi") : u \in Users}

AnyReactorInputs == {ReactData(1, u, "up") : u \in Users}

\* The connection of C sends and reacts
SenderNext ==
    \/ /\ Len(handlers) < MaxHandlers
       /\ \E data \in AnySenderInputs : SendStart("c1", data)
    \/ \E h \in DOMAIN handlers : \E t \in Later : SendRead(h, TRUE, t)
    \/ \E h \in DOMAIN handlers : SendWrite(h, TRUE)
    \/ \E h \in DOMAIN handlers : SendEmit(h, TRUE)
    \/ /\ Len(handlers) < MaxHandlers
       /\ \E data \in AnyReactorInputs : ReactStart("c1", data)
    \/ \E h \in DOMAIN handlers : \E t \in Later : ReactRead(h, TRUE, t)
    \/ \E h \in DOMAIN handlers : ReactWrite(h, TRUE)
    \/ \E h \in DOMAIN handlers : ReactEmit(h, TRUE)

\* Sends on a disk whose reads of messages.json can fail
ReadFaultNext ==
    \/ /\ Started("send") < MaxSends
       /\ \E c \in Senders : \E data \in SendInputs(c) : SendStart(c, data)
    \/ \E h \in DOMAIN handlers : \E ok \in BOOLEAN : \E t \in Later :
          SendRead(h, ok, t)
    \/ \E h \in DOMAIN handlers : SendWrite(h, TRUE)
    \/ \E h \in DOMAIN handlers : SendEmit(h, TRUE)

\* Timeouts fire, started handlers are resumed and the browser handles the
\* events that have reached it
SpecIndicator ==
    /\ Init /\ [][IndicatorNext]_vars
    /\ \A c \in Typists : WF_vars(DebounceElapsed(c))
    /\ WF_vars(Resume)
    /\ \A c \in Viewers : WF_vars(HandleEvent(c))

SpecLogout == InitView /\ [][LogoutNext]_vars

SpecSender == InitReact /\ [][SenderNext]_vars

SpecOnline == InitPresence /\ [][OnlineNext]_vars

Spec == Init /\ [][Next]_vars

SpecReadFault == InitReact /\ [][ReadFaultNext]_vars

SpecRegister == InitNoRecord /\ [][RegisterNext]_vars

SpecOrder == InitNoRecord /\ [][OrderNext]_vars

SpecJoin == InitJoin /\ [][JoinNext]_vars

SpecView == InitView /\ [][ViewNext]_vars

SpecCache == Init /\ [][CacheNext]_vars

\* Every await of a started handler completes
SpecClose == InitUpdate /\ [][CloseNext]_vars /\ WF_vars(Resume)

SpecSend == Init /\ [][SendNext]_vars

SpecReact == InitReact /\ [][ReactNext]_vars

SpecFault == Init /\ [][FaultNext]_vars

SpecPresence == InitPresence /\ [][PresenceNext]_vars

SpecPayload == InitStored /\ [][PayloadNext]_vars

SpecGroup == InitRooms /\ [][GroupNext]_vars

SpecUpdate == InitUpdate /\ [][UpdateNext]_vars

SpecOffline == InitOffline /\ [][OfflineNext]_vars

SpecTyping == Init /\ [][TypingNext]_vars

\* The pending timeout of a ChatInput fires once its 2000 ms have elapsed
SpecChatInput ==
    /\ Init /\ [][ChatInputNext]_vars
    /\ \A c \in Typists : WF_vars(DebounceElapsed(c))

-----------------------------------------------------------------------------
(* Observations used by the properties *)

\* The entries of a reaction list that belong to one user
UserReactions(reactions, u) == Filter(reactions, LAMBDA r : r.userId = u)

\* The entries of the other users, in order
OtherReactions(reactions, u) == Filter(reactions, LAMBDA r : r.userId # u)

\* The emoji of the user's reaction, None without one
EmojiOf(reactions, u) ==
    IF UserReactions(reactions, u) = <<>> THEN None
    ELSE UserReactions(reactions, u)[1].emoji


\* The stored reaction list of a message id (<<>> when it is not stored)
StoredReactionsOf(id) ==
    LET i == FindIndex(messagesDb, LAMBDA m : m.id = id)
    IN  IF i = 0 THEN <<>> ELSE messagesDb[i].reactions

IsDone(h, kind) == handlers[h].kind = kind /\ handlers[h].pc = "done"

\* The reaction handler h has put user's reaction on its copy of the message
Reacted(h) ==
    /\ IsDone(h, "react")
    /\ handlers[h].message # NullMsg
    /\ EmojiOf(handlers[h].message.reactions, handlers[h].data.userId)
         = handlers[h].data.emoji

-----------------------------------------------------------------------------
(* Properties of the reaction handlers, under SpecReact *)

\* C1: no lost update on reactions.  When two message_reaction handlers of
\* different users on the same message have both finished, each having put
\* its user's reaction on the message, and no other handler has toggled for
\* these users, the stored reaction list holds the reaction of both users.
C1_NoLostReaction ==
    \A h1, h2 \in DOMAIN handlers :
        ( /\ h1 # h2
          /\ Reacted(h1) /\ Reacted(h2)
          /\ handlers[h1].data.messageId = handlers[h2].data.messageId
          /\ handlers[h1].data.userId # handlers[h2].data.userId
          /\ \A k \in DOMAIN handlers :
                handlers[k].kind = "react" /\ k \notin {h1, h2}
                => handlers[k].data.userId
                     \notin {handlers[h1].data.userId, handlers[h2].data.userId} )
        => /\ EmojiOf(StoredReactionsOf(handlers[h1].data.messageId),
                      handlers[h1].data.userId) = handlers[h1].data.emoji
           /\ EmojiOf(StoredReactionsOf(handlers[h2].data.messageId),
                      handlers[h2].data.userId) = handlers[h2].data.emoji

\* The three cases of the reducer, as a relation between the list before
\* and the list after a toggle of (u, e) at time t
ToggleRelation(old, new, u, e, t) ==
    /\ OtherReactions(new, u) = OtherReactions(old, u)
    /\ EmojiOf(old, u) = None =>
          new = Append(old, [userId |-> u, emoji |-> e, createdAt |-> t])
    /\ EmojiOf(old, u) = e => UserReactions(new, u) = <<>>
    /\ EmojiOf(old, u) \notin {None, e} =>
          /\ Len(new) = Len(old)
          /\ \A i \in DOMAIN old :
                new[i] = IF old[i].userId = u THEN [old[i] EXCEPT !.emoji = e]
                         ELSE old[i]

\* C8: reaction reducer.  Every step in which a message_reaction handler
\* applies the toggle (u, e) to the message it has read appends (u, e) when u
\* has no reaction, removes u's reaction when it has emoji e, replaces the
\* emoji when it differs, and leaves the reactions of all other users as
\* they were; the write then stores exactly that list.
C8_ReactionReducer ==
    [][\A h \in DOMAIN handlers :
         /\ ( handlers[h].kind = "react" /\ handlers[h].pc = "read"
              /\ handlers'[h].pc = "write" )
            => ToggleRelation(StoredReactionsOf(handlers[h].data.messageId),
                              handlers'[h].message.reactions,
                              handlers[h].data.userId, handlers[h].data.emoji, now')
         /\ ( handlers[h].kind = "react" /\ handlers[h].pc = "write"
              /\ handlers'[h].pc = "fanout" )
            => StoredReactionsOf(handlers[h].data.messageId)'
                 = handlers[h].message.reactions]_vars

\* A handler has replaced A's emoji in place, next to B's reaction, and the
\* result is stored
C8_Witness ==
    \E h \in DOMAIN handlers :
        /\ Reacted(h)
        /\ handlers[h].message.reactions
             = <<Reaction("B", "heart"), Reaction("A", "heart")>>
        /\ StoredReactionsOf(handlers[h].data.messageId) = handlers[h].message.reactions

\* C9: in every reachable state every stored message has at most one
\* reaction per user id.
C9_OneReactionPerUser ==
    \A i \in DOMAIN messagesDb : \A u \in Users :
        Len(UserReactions(messagesDb[i].reactions, u)) <= 1

\* Two toggles of the same user from two connections have overlapped: each
\* pushed an entry of its own for B (the two carry different times), and one
\* entry of B is stored
C9_Witness ==
    \E h1, h2 \in DOMAIN handlers :
        /\ h1 # h2
        /\ Reacted(h1) /\ Reacted(h2)
        /\ handlers[h1].sock = "b1" /\ handlers[h2].sock = "b2"
        /\ handlers[h1].data.messageId = handlers[h2].data.messageId
        /\ UserReactions(handlers[h1].message.reactions, "B")[1].createdAt
             # UserReactions(handlers[h2].message.reactions, "B")[1].createdAt
        /\ Len(UserReactions(StoredReactionsOf(handlers[h1].data.messageId), "B")) = 1

\* The reaction list after the toggle (u, e) is applied twice in sequence
ToggledTwice(reactions, u, e) ==
    applyReaction(applyReaction(reactions, u, e, now + 1), u, e, now + 2)

\* C10 as stated: applying the toggle (u, e) twice leaves u's reaction as it
\* was before the first toggle, absent if absent and the same emoji otherwise.
C10_Original ==
    \A i \in DOMAIN messagesDb : \A u \in Users : \A e \in Emojis :
        EmojiOf(ToggledTwice(messagesDb[i].reactions, u, e), u)
          = EmojiOf(messagesDb[i].reactions, u)

\* C10, amended: applying the toggle (u, e) twice restores u's reaction
\* (absent, or emoji e) when u had no reaction or had emoji e; when u had
\* another emoji the two toggles leave u without a reaction.  The reactions
\* of the other users are as before in every case.
C10_DoubleToggle ==
    \A i \in DOMAIN messagesDb : \A u \in Users : \A e \in Emojis :
        LET old == messagesDb[i].reactions
            new == ToggledTwice(old, u, e)
        IN  /\ EmojiOf(new, u) = IF EmojiOf(old, u) \in {None, e}
                                  THEN EmojiOf(old, u) ELSE None
            /\ OtherReactions(new, u) = OtherReactions(old, u)

\* The same toggle has run twice in sequence on a stored message: the second
\* handler read what the first one wrote
C10_Witness ==
    \E h1, h2 \in DOMAIN handlers :
        /\ h1 # h2
        /\ IsDone(h1, "react") /\ IsDone(h2, "react")
        /\ handlers[h1].data = handlers[h2].data
        /\ handlers[h1].message # NullMsg
        /\ handlers[h2].message.reactions
             = applyReaction(handlers[h1].message.reactions, handlers[h2].data.userId,
                             handlers[h2].data.emoji, handlers[h2].message.updatedAt)
        /\ StoredReactionsOf(handlers[h2].data.messageId) = handlers[h2].message.reactions
        /\ EmojiOf(handlers[h1].message.reactions, handlers[h1].data.userId) # None

-----------------------------------------------------------------------------
(* Properties of the send handlers *)

\* The number of events of a message id that reached connection c
Deliveries(c, id) == Count(events, LAMBDA e : e.to = c /\ e.msg.id = id)

\* The number of events of one type carrying message msg that reached c
Received(c, type, msg) ==
    Count(events, LAMBDA e : e.to = c /\ e.type = type /\ e.msg = msg)

IsGroupSend(h) == handlers[h].kind = "send" /\ handlers[h].data.groupId # None

IsDirectSend(h) ==
    /\ handlers[h].kind = "send"
    /\ handlers[h].data.groupId = None
    /\ handlers[h].data.receiverId # None

\* C3: messages are never deleted.  Once a send_message handler has
\* completed its write, the message id it created is in the messages
\* collection in every later state.
C3_MessagesNeverDeleted ==
    \A h \in DOMAIN handlers :
        ( handlers[h].kind = "send" /\ handlers[h].pc \in {"fanout", "done"}
          /\ handlers[h].wrote )
        => handlers[h].message.id \in StoredIds

\* C4: exactly-once group fanout.  Every send_message to a stored group that
\* has completed has produced exactly one event of its message id at every
\* connection of every member, the sender's included, and none elsewhere,
\* however many sends are processed concurrently.
C4_GroupFanoutOnce ==
    \A h \in DOMAIN handlers :
        ( IsGroupSend(h) /\ handlers[h].pc = "done"
          /\ GroupMembers(groupsDb, handlers[h].data.groupId) # <<>> )
        => \A c \in Conns :
              Deliveries(c, handlers[h].message.id)
                = IF /\ sockets[c].state = "open"
                     /\ sockets[c].userId
                          \in Range(GroupMembers(groupsDb, handlers[h].data.groupId))
                  THEN 1 ELSE 0

\* Two sends of A to the group were in flight together (the one started
\* second emitted first) and both devices of B hold one event of each
C4_Witness ==
    \E h1, h2 \in DOMAIN handlers :
        /\ h1 < h2
        /\ IsGroupSend(h1) /\ IsGroupSend(h2)
        /\ handlers[h1].pc = "done" /\ handlers[h2].pc = "done"
        /\ handlers[h1].sock = "a1" /\ handlers[h2].sock = "a1"
        /\ events[1].by = h2
        /\ \A c \in {"a1", "b1", "b2", "c1"} :
              /\ Deliveries(c, handlers[h1].message.id) = 1
              /\ Deliveries(c, handlers[h2].message.id) = 1

\* What a completed direct send has emitted
C5_Delivery ==
    \A h \in DOMAIN handlers :
        ( IsDirectSend(h) /\ handlers[h].pc = "done" )
        => LET r == handlers[h]
           IN  /\ r.message.senderId = r.data.senderId
               /\ r.message.receiverId = r.data.receiverId
               /\ r.message.groupId = None
               /\ r.message.content = r.data.content
               /\ Received(r.sock, "message_sent", r.message) = 1
               /\ Count(events, LAMBDA e : e.type = "message_sent"
                                           /\ e.msg.id = r.message.id) = 1
               /\ \A c \in Conns :
                     /\ ( sockets[c].state = "open"
                          /\ sockets[c].userId = r.data.receiverId )
                        => /\ Received(c, "receive_message", r.message) = 1
                           /\ Count(events, LAMBDA e : e.to = c
                                       /\ e.type = "receive_message"
                                       /\ e.msg.id = r.message.id) = 1
                     /\ sockets[c].userId \notin {r.data.senderId, r.data.receiverId}
                        => Deliveries(c, r.message.id) = 0

\* What the write of a direct send stores
C5_Persisted ==
    \A h \in DOMAIN handlers :
        ( IsDirectSend(h) /\ handlers[h].pc = "write" /\ handlers'[h].pc = "fanout" )
        => /\ handlers[h].message.id \notin StoredIds
           /\ \A k \in DOMAIN handlers :
                 k # h => handlers[k].message.id # handlers[h].message.id
           /\ \E i \in DOMAIN messagesDb' : messagesDb'[i] = handlers[h].message

\* C5: direct message routing.  A send_message with a receiverId and no
\* groupId stores a message with a new id and that receiverId; the
\* originating connection receives exactly one message_sent, every open
\* connection of the receiver exactly one receive_message with the same id
\* and content, and no connection of a third user receives the message.
C5_DirectRouting == []C5_Delivery /\ [][C5_Persisted]_vars

\* A has sent to B: both devices of B and the sender hold the message, the
\* connection of C holds nothing
C5_Witness ==
    \E h \in DOMAIN handlers :
        /\ IsDirectSend(h) /\ handlers[h].pc = "done"
        /\ handlers[h].sock = "a1" /\ handlers[h].data.receiverId = "B"
        /\ Received("b1", "receive_message", handlers[h].message) = 1
        /\ Received("b2", "receive_message", handlers[h].message) = 1
        /\ Received("a1", "message_sent", handlers[h].message) = 1
        /\ Deliveries("c1", handlers[h].message.id) = 0
        /\ handlers[h].message.id \in StoredIds

-----------------------------------------------------------------------------
(* Write failures, under SpecFault *)

\* C2: when the write of the messages collection fails during send_message
\* or message_reaction, the originating connection receives message_error /
\* reaction_error and no receive_message, message_sent or message_updated
\* is emitted for the change that was not stored.
C2_WriteFailureSurfaced ==
    \A h \in DOMAIN handlers :
        ( handlers[h].kind \in {"send", "react"} /\ handlers[h].pc = "done"
          /\ handlers[h].message # NullMsg /\ ~handlers[h].wrote )
        => /\ \E i \in DOMAIN events :
                 /\ events[i].by = h
                 /\ events[i].to = handlers[h].sock
                 /\ events[i].type \in {"message_error", "reaction_error"}
           /\ \A i \in DOMAIN events :
                 events[i].by = h =>
                   events[i].type \notin {"receive_message", "message_sent",
                                          "message_updated"}

-----------------------------------------------------------------------------
(* Presence, under SpecPresence *)

\* The isOnline flag stored for a user
StoredOnline(u) ==
    \E i \in DOMAIN usersDb : usersDb[i].id = u /\ usersDb[i].isOnline

HasOpenConnection(u) ==
    \E c \in Conns : sockets[c].state = "open" /\ sockets[c].userId = u

\* C6: multi-device presence.  When a connection of a user disconnects while
\* another connection of that user, joined before, is still open, the
\* presence entry of the user is kept, the disconnect broadcasts no
\* user_offline, and the stored isOnline stays true.
C6_MultiDevicePresence ==
    \A h \in DOMAIN handlers :
        ( /\ handlers[h].kind = "disconnect"
          /\ \E d \in Conns :
                /\ d # handlers[h].sock
                /\ sockets[d].state = "open"
                /\ sockets[d].userId = handlers[h].data.userId
                /\ \E j \in 1..(h - 1) :
                      /\ handlers[j].kind = "join" /\ handlers[j].sock = d
                      /\ handlers[j].pc = "done" )
        => /\ connectedUsers[handlers[h].data.userId] # None
           /\ \A i \in DOMAIN events :
                 ~(events[i].by = h /\ events[i].type = "user_offline")
           /\ StoredOnline(handlers[h].data.userId)

\* C7, its safety part: once the disconnect of a user's last connection has
\* broadcast user_offline, the stored isOnline of the user is false in every
\* state until the user's next join.
C7_OfflineUntilNextJoin ==
    \A h \in DOMAIN handlers :
        ( /\ IsDone(h, "disconnect")
          /\ ~HasOpenConnection(handlers[h].data.userId)
          /\ \A j \in DOMAIN handlers :
                ( handlers[j].kind = "join"
                  /\ handlers[j].data.userId = handlers[h].data.userId ) => j < h )
        => ~StoredOnline(handlers[h].data.userId)

-----------------------------------------------------------------------------
(* Validation of payloads, under SpecPayload *)

\* The events handler h has emitted
EventsBy(h) == Filter(events, LAMBDA e : e.by = h)

\* Handler h has emitted an event of this type to its own connection
ErrorTo(h, type) ==
    \E i \in DOMAIN events :
        events[i].by = h /\ events[i].to = handlers[h].sock /\ events[i].type = type

StoredGroupIds == {groupsDb[i].id : i \in DOMAIN groupsDb}

\* C11: a send_message payload with neither receiverId nor groupId is
\* rejected before persistence: the handler never gets to write, and when it
\* has finished the originating connection holds message_error and nothing
\* else was emitted for it.
C11_MissingTargetRejected ==
    \A h \in DOMAIN handlers :
        ( /\ handlers[h].kind = "send" /\ ~handlers[h].data.isNull
          /\ handlers[h].data.receiverId = None /\ handlers[h].data.groupId = None )
        => /\ handlers[h].pc \in {"read", "done"}
           /\ handlers[h].pc = "done"
                => /\ ErrorTo(h, "message_error")
                   /\ Len(EventsBy(h)) = 1

\* C12: a message_reaction whose messageId resolved to no stored message
\* when the handler looked it up (the handler has finished without a message
\* in hand, so it has written nothing) has made the originating connection
\* receive reaction_error and has emitted nothing else.
C12_UnknownMessageRejected ==
    \A h \in DOMAIN handlers :
        ( /\ IsDone(h, "react") /\ ~handlers[h].data.isNull
          /\ handlers[h].message = NullMsg )
        => /\ ErrorTo(h, "reaction_error")
           /\ Len(EventsBy(h)) = 1

\* C13: a send_message whose groupId resolves to no stored group is
\* rejected: when the handler has finished, the originating connection
\* holds message_error and nothing else was emitted; no message for the
\* unknown group is ever in the messages collection.
C13_UnknownGroupRejected ==
    /\ \A h \in DOMAIN handlers :
          ( /\ IsDone(h, "send") /\ ~handlers[h].data.isNull
            /\ handlers[h].data.groupId \notin StoredGroupIds \cup {None} )
          => /\ ErrorTo(h, "message_error")
             /\ Len(EventsBy(h)) = 1
    /\ \A i \in DOMAIN messagesDb :
          messagesDb[i].groupId \in StoredGroupIds \cup {None}

\* C14: in every reachable state every stored message has exactly one of
\* receiverId and groupId set.
C14_ExactlyOneTarget ==
    \A i \in DOMAIN messagesDb :
        (messagesDb[i].receiverId = None) # (messagesDb[i].groupId = None)

\* The fields of a message that are fixed at creation
Identity(m) ==
    <<m.id, m.senderId, m.receiverId, m.groupId, m.content, m.createdAt>>

\* A step keeps the fixed fields of every message that is stored before and
\* after it
C15_FixedFields ==
    \A i \in DOMAIN messagesDb : \A j \in DOMAIN messagesDb' :
        messagesDb'[j].id = messagesDb[i].id
        => Identity(messagesDb'[j]) = Identity(messagesDb[i])

\* The write of a message_reaction handler changes the targeted message only
C15_ReactionFrame ==
    \A h \in DOMAIN handlers :
        ( handlers[h].kind = "react" /\ handlers[h].pc = "write"
          /\ handlers'[h].pc = "fanout" )
        => /\ Len(messagesDb') = Len(messagesDb)
           /\ \A i \in DOMAIN messagesDb :
                 /\ messagesDb'[i].id = messagesDb[i].id
                 /\ messagesDb[i].id # handlers[h].data.messageId
                    => messagesDb'[i] = messagesDb[i]

\* C15: message immutability.  In every step, id, senderId, receiverId,
\* groupId, content and createdAt of every stored message stay as they are,
\* and a message_reaction step changes nothing in the collection but the
\* targeted message (its reactions and updatedAt).
C15_Immutability == [][C15_FixedFields /\ C15_ReactionFrame]_vars

\* The first half of C15 alone
C15_FixedFieldsOnly == [][C15_FixedFields]_vars

-----------------------------------------------------------------------------
(* Group fanout and the group's room, under SpecGroup *)

IsMember(u, groupId) == u \in Range(GroupMembers(groupsDb, groupId))

\* C16: group fanout does not depend on room membership.  For every
\* completed send to group G, a connection of a member of G that was not in
\* G's room when the message was emitted (it had joined for its user id only)
\* holds exactly one receive_message of the message, and a connection that
\* was in G's room without its user being a stored member of G holds no
\* event of it.
C16_FanoutIgnoresRooms ==
    \A h \in DOMAIN handlers :
        ( IsGroupSend(h) /\ handlers[h].pc = "done" )
        => \A c \in Conns :
              /\ ( c \notin handlers[h].room
                   /\ IsMember(sockets[c].userId, handlers[h].data.groupId) )
                 => Received(c, "receive_message", handlers[h].message) = 1
              /\ ( c \in handlers[h].room
                   /\ ~IsMember(sockets[c].userId, handlers[h].data.groupId) )
                 => Deliveries(c, handlers[h].message.id) = 0

\* A message to G = {A, B} was emitted while c1 (of C, not a member) was in
\* G's room and b1 (of B, a member) was not: b1 holds it, c1 does not
C16_Witness ==
    \E h \in DOMAIN handlers :
        /\ IsGroupSend(h) /\ handlers[h].pc = "done"
        /\ ~IsMember("C", handlers[h].data.groupId)
        /\ "c1" \in handlers[h].room /\ "b1" \notin handlers[h].room
        /\ Received("b1", "receive_message", handlers[h].message) = 1
        /\ Deliveries("c1", handlers[h].message.id) = 0

-----------------------------------------------------------------------------
(* Reaction fanout, under SpecUpdate *)

\* The number of message_updated events handler h has emitted to c
Updates(h, c) ==
    Count(events, LAMBDA e : e.by = h /\ e.to = c /\ e.type = "message_updated")

\* The users an update of message m is for: sender and receiver of a direct
\* message, the stored members of the group of a group message
Recipients(m) ==
    IF m.groupId # None THEN Range(GroupMembers(groupsDb, m.groupId))
    ELSE {m.senderId, m.receiverId}

\* C17: reaction fanout uses the parent message's recipients.  Every
\* completed message_reaction on a stored message has emitted message_updated
\* once to every connection of the message's senderId and receiverId (direct
\* message) or of the group's stored members (group message), and to no
\* other connection, whoever reacted.
C17_ReactionRecipients ==
    \A h \in DOMAIN handlers :
        ( IsDone(h, "react") /\ handlers[h].message # NullMsg )
        => /\ \A c \in Conns :
                 Updates(h, c) = IF sockets[c].userId \in Recipients(handlers[h].message)
                                 THEN 1 ELSE 0
           /\ \A i \in DOMAIN events :
                 events[i].by = h
                 => /\ events[i].type = "message_updated"
                    /\ events[i].msg = handlers[h].message

\* C, who is neither sender nor receiver of the direct message and not a
\* member of G, has reacted to both: the updates went to A and B only
C17_Witness ==
    \E h1, h2 \in DOMAIN handlers :
        /\ IsDone(h1, "react") /\ IsDone(h2, "react")
        /\ handlers[h1].sock = "c1" /\ handlers[h2].sock = "c1"
        /\ handlers[h1].message.groupId = None
        /\ handlers[h1].message.receiverId = "B"
        /\ handlers[h2].message.groupId = "G" /\ ~IsMember("C", "G")
        /\ \A h \in {h1, h2} :
              /\ Updates(h, "a1") = 1 /\ Updates(h, "b1") = 1
              /\ Updates(h, "b2") = 1 /\ Updates(h, "c1") = 0

-----------------------------------------------------------------------------
(* Sends to a user without a connection, under SpecOffline *)

\* Send handler h has completed a direct send whose receiver had no open
\* connection when the message was emitted
SentToOffline(h) ==
    IsDirectSend(h) /\ handlers[h].pc = "done" /\ handlers[h].room = {}

\* No connection holds a receive_message of the message, and the message is
\* stored
C18_DroppedAndStored ==
    \A h \in DOMAIN handlers :
        ( SentToOffline(h) /\ handlers[h].wrote )
        => /\ \A i \in DOMAIN events :
                 ~(events[i].type = "receive_message"
                   /\ events[i].msg.id = handlers[h].message.id)
           /\ handlers[h].message.id \in StoredIds

\* A fetch of the receiver's client returns the message
C18_Fetched ==
    \A c \in Conns :
        clients'[c] # clients[c]
        => \A h \in DOMAIN handlers :
              ( /\ SentToOffline(h) /\ handlers[h].wrote
                /\ handlers[h].data.receiverId = ConnOwner[c]
                /\ handlers[h].data.senderId = clients'[c].peer )
              => \E i \in DOMAIN clients'[c].conversation :
                    clients'[c].conversation[i].id = handlers[h].message.id

\* C18: best-effort delivery.  When B has no open connection at the moment
\* A's direct message is emitted, no connection ever holds a
\* receive_message of it, also after B joins again; the message is in the
\* messages collection in every later state and every later fetch of the
\* A-B conversation by B returns it.
C18_BestEffort == []C18_DroppedAndStored /\ [][C18_Fetched]_vars

\* The part of C18 about the event: it is dropped and never replayed
C18_NeverReplayed ==
    \A h \in DOMAIN handlers :
        SentToOffline(h)
        => \A i \in DOMAIN events :
              ~(events[i].type = "receive_message"
                /\ events[i].msg.id = handlers[h].message.id)

-----------------------------------------------------------------------------
(* Typing signals, under SpecChatInput and SpecTyping *)

\* The last typing signal the client behind c has emitted is isTyping=true
TypingShown(c) ==
    clients[c].sent # <<>> /\ clients[c].sent[Len(clients[c].sent)]

\* C19: typing debounce liveness.  Every typing(true) a client emits is
\* eventually followed by a typing(false) of the same client for the same
\* target, once the keystrokes have stopped and the debounce window has
\* elapsed.
C19_TypingEventuallyFalse ==
    \A c \in Typists : TypingShown(c) ~> ~TypingShown(c)

\* Every user_typing event was relayed to a connection other than the
\* emitting one that belongs to the receiverId (direct) or was in the
\* group's room when the signal was relayed (group)
C20_Relay ==
    \A i \in DOMAIN events :
        events[i].type = "user_typing"
        => LET r == handlers[events[i].by]
           IN  /\ r.kind = "typing"
               /\ events[i].to # r.sock
               /\ events[i].msg = TypingPayload(r.data)
               /\ IF r.data.groupId # None
                  THEN events[i].to \in r.room
                  ELSE sockets[events[i].to].userId = r.data.receiverId

\* A step in which a typing signal is handled leaves the three collections
\* as they are
C20_Frame ==
    ( Len(handlers') > Len(handlers)
      /\ handlers'[Len(handlers')].kind = "typing" )
    => UNCHANGED <<usersDb, messagesDb, groupsDb>>

\* C20: a typing event leaves the users, messages and groups collections
\* unchanged, and its user_typing relay reaches only connections of the
\* receiverId (direct) or connections in the group's signalling room
\* (group), never the sending connection.
C20_TypingRelay == []C20_Relay /\ [][C20_Frame]_vars

\* b1 has signalled typing in the group while it was in the group's room
\* together with c1: c1 holds the relay and b1 does not; and a1 has signalled
\* typing to B: both devices of B hold it
C20_Witness ==
    \E g, d \in DOMAIN handlers :
        /\ handlers[g].kind = "typing" /\ handlers[g].data.groupId = "G"
        /\ handlers[g].sock = "b1" /\ handlers[g].room = {"b1", "c1"}
        /\ {events[i].to : i \in {j \in DOMAIN events : events[j].by = g}} = {"c1"}
        /\ handlers[d].kind = "typing" /\ handlers[d].data.groupId = None
        /\ handlers[d].sock = "a1"
        /\ {events[i].to : i \in {j \in DOMAIN events : events[j].by = d}}
             = {"b1", "b2"}

-----------------------------------------------------------------------------
(* A connection that closes while its handlers run, under SpecClose *)

\* The number of events handler h has emitted to c
EventsFrom(h, c) == Count(events, LAMBDA e : e.by = h /\ e.to = c)

\* The handlers of send_message and message_reaction
IsChange(h) == h \in DOMAIN handlers /\ handlers[h].kind \in {"send", "react"}

\* Handler h has written its change and emitted it once to every connection,
\* other than the originating one, of a user the message is for
FannedOut(h) ==
    /\ handlers[h].pc = "done"
    /\ handlers[h].wrote
    /\ \A c \in Conns \ {handlers[h].sock} :
          EventsFrom(h, c) = IF ConnOwner[c] \in Recipients(handlers[h].message)
                             THEN 1 ELSE 0
    /\ \A i \in DOMAIN events :
          events[i].by = h /\ events[i].to # handlers[h].sock
          => /\ events[i].msg = handlers[h].message
             /\ events[i].type = IF handlers[h].kind = "send"
                                 THEN "receive_message" ELSE "message_updated"

\* C21: close is not cancellation.  Every send_message or message_reaction
\* handler that has started goes on to write its change to the messages
\* collection and to emit it to the other recipients, at whatever point of
\* the handler the originating connection disconnects: a handler that has
\* ended has done both, and every started handler ends.
C21_CloseIsNotCancellation ==
    /\ [](\A h \in DOMAIN handlers :
             (IsChange(h) /\ handlers[h].pc = "done") => FannedOut(h))
    /\ \A h \in 1..(MaxClose + 1) :
          IsChange(h) ~> (IsChange(h) /\ FannedOut(h))

\* A's connection closed after its send to B had started, the disconnect
\* handler has already broadcast user_offline, and after that the send
\* wrote the message and emitted it to both connections of B
C21_Witness ==
    \E h, d \in DOMAIN handlers :
        /\ h < d
        /\ IsDone(h, "send") /\ handlers[h].data.receiverId = "B"
        /\ IsDone(d, "disconnect") /\ handlers[d].sock = handlers[h].sock
        /\ \E i, k \in DOMAIN events :
              i < k /\ events[i].by = d /\ events[k].by = h
        /\ FannedOut(h)
        /\ handlers[h].message.id \in StoredIds
        /\ EventsFrom(h, "b1") = 1 /\ EventsFrom(h, "b2") = 1

-----------------------------------------------------------------------------
(* The client's cache and view, under SpecCache *)

\* The message ids in a list
Ids(messages) == {messages[i].id : i \in DOMAIN messages}

\* The ids of the direct messages of the conversation with userId whose
\* receive_message or message_sent event the listeners of c have run for
PushedIds(c, userId) ==
    {EventsTo(c)[k].msg.id :
        k \in {j \in 1..clients[c].seen :
                 /\ EventsTo(c)[j].type \in {"receive_message", "message_sent"}
                 /\ EventsTo(c)[j].msg.groupId = None
                 /\ ConversationId(ConnOwner[c], EventsTo(c)[j].msg) = userId}}

\* Client c applies the response of its request i in this step
Applies(c, i) ==
    /\ i \in DOMAIN clients[c].fetches
    /\ clients[c].fetches[i].state = "answered"
    /\ clients[c].fetches[i].state' = "applied"

\* C22: cache merge is a set union.  Applying a REST snapshot removes from
\* the cached list of its conversation, and from the displayed list, no
\* message that a push event had put there.
C22_SnapshotKeeps ==
    \A c \in Viewers : \A i \in DOMAIN clients[c].fetches :
        Applies(c, i)
        => LET userId == clients[c].fetches[i].userId
           IN  \A id \in PushedIds(c, userId) :
                 /\ id \in Ids(clients[c].cache[userId])
                    => id \in Ids(clients[c].cache[userId]')
                 /\ id \in Ids(clients[c].view.messages)
                    => id \in Ids(clients[c].view.messages')

C22_MergeIsUnion == [][C22_SnapshotKeeps]_vars

\* A list holds no message id twice
NoDuplicateId(messages) ==
    \A i, j \in DOMAIN messages : messages[i].id = messages[j].id => i = j

\* C23: no duplicate message ids on the client.  In every reachable client
\* state the cached list of every conversation and the displayed list hold
\* each message id at most once, for any order of snapshot applications and
\* receive_message / message_sent events.
C23_NoDuplicateIds ==
    \A c \in Viewers :
        /\ \A u \in Users : NoDuplicateId(clients[c].cache[u])
        /\ NoDuplicateId(clients[c].view.messages)

\* A list is in non-decreasing order of createdAt
SortedByCreatedAt(messages) ==
    \A i, j \in DOMAIN messages :
        i < j => messages[i].createdAt <= messages[j].createdAt

\* C24: the client's lists are sorted by creation time.  In every reachable
\* client state the cached list of every conversation and the displayed
\* list are in non-decreasing order of createdAt, also when the server
\* emits concurrent sends in another order than their createdAt.
C24_SortedByCreatedAt ==
    \A c \in Viewers :
        /\ \A u \in Users : SortedByCreatedAt(clients[c].cache[u])
        /\ SortedByCreatedAt(clients[c].view.messages)

\* The listeners of client c run for event e in this step
Handles(c, e) ==
    /\ clients[c].seen < Len(EventsTo(c))
    /\ e = EventsTo(c)[clients[c].seen + 1]
    /\ clients[c].seen' = clients[c].seen + 1

\* List new is list old with the entry of message's id, if there is one,
\* replaced by message at the same position
ReplacedInPlace(old, new, message) ==
    /\ Len(new) = Len(old)
    /\ \A i \in DOMAIN old :
          new[i] = IF old[i].id = message.id THEN message ELSE old[i]

\* What a message_updated event of a direct message does to the cached
\* list of its conversation and to the displayed list
C25_UpdateStep ==
    \A c \in Viewers : \A e \in Range(EventsTo(c)) :
        ( Handles(c, e) /\ e.type = "message_updated" /\ e.msg.groupId = None )
        => LET conversationId == ConversationId(ConnOwner[c], e.msg)
           IN  /\ ReplacedInPlace(clients[c].cache[conversationId],
                                  clients[c].cache[conversationId]', e.msg)
               /\ ReplacedInPlace(clients[c].view.messages,
                                  clients[c].view.messages', e.msg)

\* C25: a message_updated push replaces in place.  A message_updated event
\* for an id in the client's cache replaces that entry at its position,
\* with the length of the list and every other entry unchanged, and one for
\* an id that is not in the cache adds no entry; the same for the displayed
\* list.
C25_UpdateInPlace == [][C25_UpdateStep]_vars

\* The same for the events that arrive while the SocketProvider's
\* message_updated listener is registered
C25_UpdateInPlaceWhileListening ==
    [][(\A c \in Viewers : clients[c].listening["message_updated"])
       => C25_UpdateStep]_vars

\* The conversation with u is the active view of client cl
IsActive(cl, u) == cl.page = "chat" /\ cl.view.userId = u

\* What the handling of an event does to the unread counters
C27_UnreadStep ==
    \A c \in Viewers : \A e \in Range(EventsTo(c)) :
        Handles(c, e)
        => \A u \in Users :
              LET forU == /\ e.type = "receive_message"
                          /\ e.msg.groupId = None
                          /\ ConversationId(ConnOwner[c], e.msg) = u
              IN  /\ clients[c].unread[u]' >= clients[c].unread[u]
                  /\ clients[c].unread[u]' > clients[c].unread[u]
                     => /\ forU
                        /\ e.msg.senderId # ConnOwner[c]
                        /\ ~IsActive(clients[c], u)
                  /\ (forU /\ IsActive(clients[c], u))
                     => clients[c].unread[u]' = 0

\* C27: unread accounting.  The unread counter of a conversation is
\* incremented only by a received message whose sender is not the viewing
\* user and which arrives while that conversation is not the active view; a
\* message that arrives while the conversation is the active view leaves
\* its counter at zero.
C27_UnreadAccounting == [][C27_UnreadStep]_vars

\* The part that does not depend on the active view: a counter never
\* decreases when an event is handled, and the only counter that grows is
\* that of the conversation of a received message from another user
C27_IncrementOnlyForOthers ==
    [][\A c \in Viewers : \A e \in Range(EventsTo(c)) :
          Handles(c, e)
          => \A u \in Users :
                /\ clients[c].unread[u]' >= clients[c].unread[u]
                /\ clients[c].unread[u]' > clients[c].unread[u]
                   => /\ e.type = "receive_message"
                      /\ e.msg.senderId # ConnOwner[c]
                      /\ ConversationId(ConnOwner[c], e.msg) = u]_vars

-----------------------------------------------------------------------------
(* Snapshots and unread counters, under SpecView *)

\* The requests of client c whose response has arrived at the browser or is
\* about to
Answered(c) ==
    {i \in DOMAIN clients[c].fetches :
        clients[c].fetches[i].state \in {"answered", "applied"}}

\* C26: cache merge idempotence.  For every client state and every snapshot
\* the server has answered with, applying the snapshot twice leaves the
\* same cache and the same view as applying it once.
C26_MergeIdempotent ==
    \A c \in Viewers : \A i \in Answered(c) :
        LET f == clients[c].fetches[i]
            once == ApplySnapshot(clients[c], f)
        IN  ApplySnapshot(once, f) = once

\* The snapshot of the conversation with A, which holds A's message, is
\* about to be applied in the ChatRoom that asked for it, whose list and
\* cache are still empty: applying it changes both
C26_Witness ==
    \E i \in Answered("b1") :
        LET f == clients["b1"].fetches[i]
        IN  /\ f.state = "answered" /\ f.userId = "A"
            /\ f.data = <<StoredMessage(<<>>)>>
            /\ IsActive(clients["b1"], "A") /\ clients["b1"].view.mount = f.mount
            /\ clients["b1"].cache["A"] = <<>>
            /\ clients["b1"].view.messages = <<>>

\* The conversation with u becomes the active view of client c in this step
Activates(c, u) == ~IsActive(clients[c], u) /\ IsActive(clients[c], u)'

\* C28: opening a conversation clears its unread counter.  When a
\* conversation becomes the active view its unread counter is set to zero
\* and the counters of all other conversations are left unchanged.
C28_OpenClearsUnread ==
    [][\A c \in Viewers : \A u \in Users :
          Activates(c, u)
          => /\ clients[c].unread[u]' = 0
             /\ \A v \in Users \ {u} :
                   clients[c].unread[v]' = clients[c].unread[v]]_vars

\* B has opened the conversation with A after the messages of A and of C
\* had been counted: A's counter is back at zero, C's is still 1
C28_Witness ==
    /\ IsActive(clients["b1"], "A")
    /\ clients["b1"].seen = 2
    /\ clients["b1"].opens = 1
    /\ clients["b1"].cache["A"] = <<StoredMessage(<<>>)>>
    /\ clients["b1"].view.messages = <<StoredMessage(<<>>)>>
    /\ \A i \in DOMAIN clients["b1"].fetches : clients["b1"].fetches[i].state = "sent"
    /\ clients["b1"].unread["A"] = 0
    /\ clients["b1"].unread["C"] = 1

-----------------------------------------------------------------------------
(* The identity of a joining connection, under SpecJoin *)

\* C29: join is bound to the authenticated identity.  A connection is
\* registered for a user id, and is in that user's room, only if it is the
\* connection of a client authenticated as that user (ConnOwner): a join
\* that names another user is rejected, and the connection receives no event
\* addressed to the user it named.
C29_JoinAuthenticated ==
    /\ \A c \in Conns :
          /\ sockets[c].userId \in {None, ConnOwner[c]}
          /\ sockets[c].rooms \cap Users \subseteq {ConnOwner[c]}
    /\ \A u \in Users :
          connectedUsers[u] # None => ConnOwner[connectedUsers[u]] = u
    /\ \A i \in DOMAIN events :
          events[i].type = "receive_message"
          => events[i].msg.receiverId = ConnOwner[events[i].to]

\* What still holds: a connection receives the direct messages of the room
\* it has joined only
C29_ReceivesForJoinedId ==
    \A i \in DOMAIN events :
        events[i].type = "receive_message"
        => events[i].msg.receiverId = sockets[events[i].to].userId

-----------------------------------------------------------------------------
(* The collection at the moment of an emit, under Spec *)

\* The events emitted in this step
Emitted == {i \in DOMAIN events' : i > Len(events)}

\* C30: persistence precedes fanout.  At the moment a receive_message,
\* message_sent or message_updated event is emitted, the messages collection
\* holds a message of the emitted id whose reaction list is that of the
\* emitted payload.
C30_PersistedWhenEmitted ==
    [][\A i \in Emitted :
          events[i]'.type \in PushEvents
          => \E k \in DOMAIN messagesDb :
                /\ messagesDb[k].id = events[i]'.msg.id
                /\ messagesDb[k].reactions = events[i]'.msg.reactions]_vars

-----------------------------------------------------------------------------
(* The order of the presence write and the broadcast, under SpecOrder *)

\* The ids of the users that have a record
StoredUserIds == {usersDb[i].id : i \in DOMAIN usersDb}

\* The presence events
PresenceEvents == {"user_online", "user_offline"}

\* Handler h completes its write of users.json in this step
Writes(h) ==
    /\ h \in DOMAIN handlers
    /\ handlers[h].kind \in {"join", "disconnect"}
    /\ handlers[h].pc = "write" /\ handlers[h].pc' = "fanout"

\* A presence write sets the stored flag of the handler's user: true for a
\* join, false for a disconnect
C31_WriteSetsFlag ==
    \A h \in DOMAIN handlers :
        Writes(h)
        => /\ handlers[h].wrote'
           /\ \E i \in DOMAIN usersDb' :
                 /\ usersDb'[i].id = handlers[h].data.userId
                 /\ usersDb'[i].isOnline = (handlers[h].kind = "join")

\* A presence event is emitted by a handler of its kind and user that has
\* completed its write, for a user that has a record
C31_BroadcastAfterWrite ==
    \A i \in Emitted :
        events[i]'.type \in PresenceEvents
        => LET h == events[i]'.by
           IN  /\ h \in DOMAIN handlers
               /\ handlers[h].kind = IF events[i]'.type = "user_online"
                                      THEN "join" ELSE "disconnect"
               /\ handlers[h].data.userId = events[i]'.user
               /\ handlers[h].pc = "fanout" /\ handlers[h].wrote
               /\ events[i]'.user \in StoredUserIds

-----------------------------------------------------------------------------
(* The order of the messages of one sender, under SpecSend *)

\* Message m1 comes before message m2 in list messages
Before(messages, m1, m2) ==
    \E i, j \in DOMAIN messages :
        i < j /\ messages[i].id = m1.id /\ messages[j].id = m2.id

\* C32: per-sender order.  When one connection emits send_message m1 and
\* then m2 to the same receiver, once both handlers have ended m1 precedes
\* m2 in the messages collection, m1 has the earlier createdAt, and every
\* connection of the receiver was sent the receive_message of m1 before
\* that of m2.
C32_PerSenderOrder ==
    \A h1, h2 \in DOMAIN handlers :
        ( /\ h1 < h2
          /\ IsDirectSend(h1) /\ IsDirectSend(h2)
          /\ handlers[h1].pc = "done" /\ handlers[h2].pc = "done"
          /\ handlers[h1].sock = handlers[h2].sock
          /\ handlers[h1].data.receiverId = handlers[h2].data.receiverId )
        => /\ Before(messagesDb, handlers[h1].message, handlers[h2].message)
           /\ handlers[h1].message.createdAt < handlers[h2].message.createdAt
           /\ \A i, j \in DOMAIN events :
                 ( /\ events[i].by = h1 /\ events[j].by = h2
                   /\ events[i].type = "receive_message"
                   /\ events[j].type = "receive_message"
                   /\ events[i].to = events[j].to )
                 => i < j

-----------------------------------------------------------------------------
(* Navigation and the views of the client, under SpecCache *)

\* Client cl with every listener of the SocketProvider registered
Listening(cl) == [cl EXCEPT !.listening = [t \in PushEvents |-> TRUE]]

\* C33: the cache-writing listeners survive navigation.  After any sequence
\* of mounts and unmounts of the Chats and ChatRoom pages, every
\* receive_message, message_sent and message_updated event that reaches the
\* open socket is applied to the local cache (the stored message lists and
\* the unread counters) by the SocketProvider's handlers.
C33_ListenersSurvive ==
    [][\A c \in Viewers : \A e \in Range(EventsTo(c)) :
          ( Handles(c, e) /\ e.type \in PushEvents )
          => LET applied == ProviderOn(Listening(clients[c]), ConnOwner[c], e)
             IN  /\ clients[c].cache' = applied.cache
                 /\ clients[c].groupCache' = applied.groupCache
                 /\ clients[c].unread' = applied.unread]_vars

\* Message m is a direct message between users me and userId
Between(m, me, userId) ==
    /\ m.groupId = None
    /\ {m.senderId, m.receiverId} = {me, userId}

\* C34: view isolation.  In every reachable client state every message
\* shown in the ChatRoom for peer P is a direct message between the viewing
\* user and P, also when an acknowledgement or a REST response for the
\* conversation that was open before arrives after the switch to P.
C34_ViewIsolation ==
    \A c \in Viewers :
        clients[c].page = "chat"
        => \A i \in DOMAIN clients[c].view.messages :
              Between(clients[c].view.messages[i], ConnOwner[c],
                      clients[c].view.userId)

-----------------------------------------------------------------------------
(* Registration and the presence handlers, under SpecRegister *)

\* C35: a user record is never lost.  Once the write of a registration has
\* completed, the registered user has a record in the users collection in
\* every later state, for any interleaving with the join and disconnect
\* handlers that read, modify and write the collection.
C35_UserNeverLost ==
    \A h \in DOMAIN handlers :
        ( handlers[h].kind = "register" /\ handlers[h].wrote )
        => handlers[h].data.userId \in StoredUserIds

-----------------------------------------------------------------------------
(* Failed reads of the collection, under SpecReadFault *)

\* The send_message handler h completes its write in this step
SendWrites(h) ==
    /\ h \in DOMAIN handlers
    /\ handlers[h].kind = "send"
    /\ handlers[h].pc = "write" /\ handlers[h].pc' = "fanout"

\* C36: a failed read does not destroy data.  The messages that are in the
\* collection before a send_message writes are still in it afterwards, also
\* when the handler's read of the collection had failed: the handler does
\* not write back a collection that holds the new message only.
C36_FailedReadKeepsData ==
    [][\A h \in DOMAIN handlers :
          SendWrites(h)
          => /\ StoredIds \subseteq {messagesDb'[i].id : i \in DOMAIN messagesDb'}
             /\ messagesDb' # <<handlers[h].message>>]_vars

-----------------------------------------------------------------------------
(* C37: the presence a client shows *)

\* A presence change is in flight while a join or disconnect handler has
\* not finished, or an event has not reached an open connection's client
PresenceInFlight ==
    \/ \E h \in DOMAIN handlers :
          handlers[h].kind \in {"join", "disconnect"} /\ handlers[h].pc # "done"
    \/ \E c \in Conns :
          sockets[c].state = "open" /\ clients[c].seen < Len(EventsTo(c))

\* The users with an open connection that has joined
JoinedUsers ==
    {sockets[c].userId : c \in {d \in Conns : sockets[d].state = "open"
                                                /\ sockets[d].userId # None}}

\* C37: whenever no presence event is in flight, the onlineUsers of a
\* connected client is the set of the other users that have a joined
\* connection, the users who joined before the client connected included
C37_PresenceView ==
    ~PresenceInFlight
    => \A c \in Conns :
          sockets[c].state = "open" /\ sockets[c].userId # None
          => clients[c].onlineUsers = JoinedUsers \ {sockets[c].userId}

\* What holds: a client lists a user only after a join of that user
C37_OnlyJoinedOnce ==
    \A c \in Conns : \A u \in clients[c].onlineUsers :
        \E h \in DOMAIN handlers :
            handlers[h].kind = "join" /\ handlers[h].data.userId = u

-----------------------------------------------------------------------------
(* C38: who a message or a reaction is attributed to *)

\* The message_reaction handler h completes its write in this step
ReactWrites(h) ==
    /\ h \in DOMAIN handlers
    /\ handlers[h].kind = "react"
    /\ handlers[h].pc = "write" /\ handlers[h].pc' = "fanout"

\* The user id the connection of handler h has joined as
JoinedAs(h) == sockets[handlers[h].sock].userId

\* The reactions a step stores that were not stored before it
StoredByStep ==
    UNION {Range(messagesDb'[i].reactions)
               \ Range(StoredReactionsOf(messagesDb'[i].id)) :
           i \in DOMAIN messagesDb'}

\* C38: sender integrity.  The message a send_message handler persists and
\* every message it fans out carry as senderId the user id its connection
\* joined as, and a reaction stored by a message_reaction handler carries
\* that id as userId.
C38_SenderIntegrity ==
    [][/\ \A h \in DOMAIN handlers :
             SendWrites(h)
             => \A i \in DOMAIN messagesDb' :
                   messagesDb'[i].id = handlers[h].message.id
                   => messagesDb'[i].senderId = JoinedAs(h)
       /\ \A i \in Emitted :
             events'[i].type \in {"receive_message", "message_sent"}
             => events'[i].msg.senderId = JoinedAs(events'[i].by)
       /\ \A h \in DOMAIN handlers :
             ReactWrites(h) => \A r \in StoredByStep : r.userId = JoinedAs(h)]_vars

-----------------------------------------------------------------------------
(* C39: the cache after logout *)

\* No cache key of the client holds data
CacheEmpty(cl) ==
    /\ \A u \in Users : cl.cache[u] = <<>> /\ cl.unread[u] = 0
    /\ \A g \in GroupIds : cl.groupCache[g] = <<>>

\* C39: after logout no cache key of the app holds data in any later state
\* (no login follows in the observed behaviours), also when a response or
\* an event that was under way at logout arrives afterwards
C39_CacheEmptyAfterLogout ==
    \A c \in Conns : clients[c].page = "login" => CacheEmpty(clients[c])

\* What holds: the cache is empty in the state logout leaves
C39_LogoutClears ==
    [][\A c \in Conns :
          clients[c].page # "login" /\ clients[c].page' = "login"
          => CacheEmpty(clients[c]')]_vars

-----------------------------------------------------------------------------
(* C40: the typing indicator *)

\* The client behind c shows that the user of connection d is typing
ShowsTyping(c, d) == ConnOwner[d] \in clients[c].typingUsers

\* C40: the typing indicator is eventually cleared.  If a client holds user
\* U in typingUsers and U's connection has closed, then eventually U is no
\* longer in that client's typingUsers.
C40_TypingEventuallyCleared ==
    \A c \in Viewers : \A d \in Typists :
        (ShowsTyping(c, d) /\ sockets[d].state = "closed") ~> ~ShowsTyping(c, d)

\* What holds: a relayed typing(false) clears the indicator when the
\* client handles it
C40_ClearedOnStop ==
    [][\A c \in Viewers :
          clients[c].seen' = clients[c].seen + 1
          => LET e == EventsTo(c)[clients[c].seen + 1]
             IN  e.type = "user_typing" /\ ~e.msg.isTyping
                 => e.msg.userId \notin clients[c].typingUsers']_vars

=============================================================================
